---- MODULE Spec2Model ----
(***************************************************************************)
(* A model of the liveslots layer of SwingSet                              *)
(* (packages/SwingSet/src/kernel/liveSlots.js): the slot registry          *)
(* (valToSlot, slotToVal, exportedRemotables, pendingPromises, deadSet),   *)
(* the marshaller bridge, the resolution collector, the dispatch core and  *)
(* the post-crank GC drain, together with the JavaScript engine            *)
(* facilities it relies on (weak references, finalization registry, the    *)
(* microtask queue).                                                       *)
(*                                                                         *)
(* Every liveslots function is an operator that maps a state record `s`    *)
(* to the state after the call, so that nested calls compose exactly as    *)
(* in the source; an action of the state machine is one JavaScript turn.   *)
(***************************************************************************)
EXTENDS Integers, Sequences, FiniteSets, TLC

(***************************************************************************)
(* Bounds of the model.                                                    *)
(***************************************************************************)
MaxRemotables == 1      \* Remotables user code creates besides the root
MaxPresences  == 2      \* Presence identities alive at one time
MaxPromises   == 2      \* Promise identities alive at one time
MaxExportID   == 2      \* largest export id the vat may allocate
MaxPromiseID  == 7      \* largest promise id the vat may allocate
MaxQueued     == 2      \* queued finalizer callbacks per vref
MaxLog        == 3      \* syscalls in the crank's log before user code stops emitting
MaxSends      == 2      \* eventual sends waiting for their handler turn
MaxCranks     == 2      \* message and notify deliveries the kernel makes
MaxGCCranks   == 2      \* dropExports, retireExports and retireImports deliveries

(***************************************************************************)
(* Program constants.                                                      *)
(***************************************************************************)
FirstExportID  == 1
FirstPromiseID == 5
RootID         == 0

(***************************************************************************)
(* Vrefs.  A vref is held parsed, as parseVatSlot returns it; VrefText is  *)
(* its textual form (o+1, o-10, p+5, p-3), as a sequence of character      *)
(* codes, which is what Array.prototype.sort compares.                     *)
(***************************************************************************)
makeVatSlot(type, allocatedByVat, id) ==
    [type |-> type, allocatedByVat |-> allocatedByVat, virtual |-> FALSE, id |-> id]

NoSlot == [type |-> "none", allocatedByVat |-> FALSE, virtual |-> FALSE, id |-> 0]

RECURSIVE Digits(_)
Digits(n) ==
    IF n < 10 THEN <<48 + n>> ELSE Digits(n \div 10) \o <<48 + (n % 10)>>

TypeChar(type) ==
    CASE type = "object"  -> 111
      [] type = "promise" -> 112
      [] type = "device"  -> 100
      [] OTHER            -> 63

VrefText(vref) ==
    <<TypeChar(vref.type), IF vref.allocatedByVat THEN 43 ELSE 45>> \o Digits(vref.id)

(* The kernel-allocated vrefs the kernel may name in a delivery. *)
KernelObjectIDs  == {2, 10}
KernelPromiseIDs == {1, 2}

KernelObjects  == {makeVatSlot("object", FALSE, i) : i \in KernelObjectIDs}
KernelPromises == {makeVatSlot("promise", FALSE, i) : i \in KernelPromiseIDs}
VatObjects     == {makeVatSlot("object", TRUE, i) : i \in RootID..MaxExportID}
VatPromises    == {makeVatSlot("promise", TRUE, i) : i \in FirstPromiseID..MaxPromiseID}
rootSlot       == makeVatSlot("object", TRUE, RootID)
FirstDevice    == makeVatSlot("device", FALSE, RootID + 1)
KernelDevices  == {FirstDevice}

(* The vref of a virtual object: the virtual object manager makes it. *)
FirstVirtual ==
    [type |-> "object", allocatedByVat |-> TRUE, virtual |-> TRUE, id |-> MaxExportID + 1]
VirtualObjects == {FirstVirtual}

Vrefs == KernelObjects \cup KernelPromises \cup VatObjects \cup VatPromises
         \cup KernelDevices \cup VirtualObjects

(***************************************************************************)
(* Values: the JavaScript objects of the vat, each an identity.            *)
(***************************************************************************)
NoVal   == <<"none", 0>>       \* undefined
rootObject == <<"Remotable", 0>>
Remotables == {<<"Remotable", i>> : i \in 0..MaxRemotables}
Presences  == {<<"Presence", i>> : i \in 1..MaxPresences}
Promises   == {<<"Promise", i>> : i \in 1..MaxPromises}
Devices    == {<<"Device", i>> : i \in 1..Cardinality(KernelDevices)}
Representatives == {<<"Representative", i>> : i \in 1..Cardinality(VirtualObjects)}
Vals == Remotables \cup Presences \cup Promises \cup Devices \cup Representatives

isPromise(val) == val[1] = "Promise"

NoRes == [known |-> FALSE, rejected |-> FALSE, value |-> <<>>]
Res(rejected, value) == [known |-> TRUE, rejected |-> rejected, value |-> value]

VARIABLES
    didRoot,                      \* setBuildRootObject has run
    valToSlot,                    \* WeakMap value -> vref (NoSlot: no entry)
    slotToVal,                    \* Map vref -> WeakRef (see Deref)
    exportedRemotables,           \* Set of Remotables, strong
    pendingPromises,              \* Set of Promises, strong
    deadSet,                      \* Set of vrefs, in insertion order
    disavowedPresences,           \* WeakSet of Presences
    importedPromisesByPromiseID,  \* Map vpid -> resolver pair (its keys)
    nextExportID,
    nextPromiseID,
    knownResolutions,             \* WeakMap promise -> [rejected, value]
    importedPromises,             \* null, or the Set being collected
    alive,                        \* values the engine has not collected
    userHeld,                     \* values user code holds a strong reference to
    droppedRegistry,              \* FinalizationRegistry: value -> held vref
    finalizerQueue,               \* queued finalizer callbacks, per held vref
    settled,                      \* promise -> its settlement, once settled
    thens,                        \* then-callbacks liveslots has attached
    pendingSends,                 \* eventual sends whose handler has not run yet
    phase,                        \* the position of dispatch()
    log,                          \* the syscalls of the current crank, in order
    resolvedBefore,               \* vpids in syscall.resolve of earlier cranks
    subscribedBefore,             \* vpids in syscall.subscribe of earlier cranks
    errors,                       \* exceptions thrown in the current crank
    cranks,                       \* message and notify deliveries so far
    gcCranks,                     \* GC deliveries so far
    notified,                     \* vpids the kernel has named in a notify
    delivery,                     \* the delivery of the current crank
    introduced,                   \* object vrefs that have been a key of slotToVal
    issued,                       \* result promises of the crank's eventual sends, in order
    slotsOf,                      \* value -> the vrefs valToSlot has given it since it was made
    previous,                     \* the vrefs the previous crank's dropExports named
    vomReachable,                 \* vrefs in the state of virtual objects
    vomRecognizable               \* vrefs that are keys of virtual-object-aware weak collections

NoDelivery == [type |-> "none"]

vars == <<didRoot, valToSlot, slotToVal, exportedRemotables, pendingPromises,
          deadSet, disavowedPresences, importedPromisesByPromiseID, nextExportID,
          nextPromiseID, knownResolutions, importedPromises, alive, userHeld,
          droppedRegistry, finalizerQueue, settled, thens, pendingSends, phase,
          log, resolvedBefore, subscribedBefore, errors, cranks, notified, delivery, introduced,
          issued, gcCranks, slotsOf, previous, vomReachable, vomRecognizable>>

(***************************************************************************)
(* The state as one record, and its write-back.  `threw` is the exception  *)
(* in flight in the current turn; `full` says the turn needed more than    *)
(* the bounds of the model allow.                                          *)
(***************************************************************************)
Cur ==
    [didRoot |-> didRoot, valToSlot |-> valToSlot, slotToVal |-> slotToVal,
     exportedRemotables |-> exportedRemotables, pendingPromises |-> pendingPromises,
     deadSet |-> deadSet, disavowedPresences |-> disavowedPresences,
     importedPromisesByPromiseID |-> importedPromisesByPromiseID,
     nextExportID |-> nextExportID, nextPromiseID |-> nextPromiseID,
     knownResolutions |-> knownResolutions, importedPromises |-> importedPromises,
     alive |-> alive, userHeld |-> userHeld, droppedRegistry |-> droppedRegistry,
     finalizerQueue |-> finalizerQueue, settled |-> settled, thens |-> thens,
     pendingSends |-> pendingSends, phase |-> phase, log |-> log,
     resolvedBefore |-> resolvedBefore, subscribedBefore |-> subscribedBefore,
     errors |-> errors, cranks |-> cranks, notified |-> notified,
     delivery |-> delivery, issued |-> issued,
     gcCranks |-> gcCranks, previous |-> previous, vomReachable |-> vomReachable,
     vomRecognizable |-> vomRecognizable, threw |-> FALSE, full |-> FALSE]

Commit(s) ==
    /\ ~s.full
    /\ didRoot' = s.didRoot
    /\ valToSlot' = s.valToSlot
    /\ slotToVal' = s.slotToVal
    /\ exportedRemotables' = s.exportedRemotables
    /\ pendingPromises' = s.pendingPromises
    /\ deadSet' = s.deadSet
    /\ disavowedPresences' = s.disavowedPresences
    /\ importedPromisesByPromiseID' = s.importedPromisesByPromiseID
    /\ nextExportID' = s.nextExportID
    /\ nextPromiseID' = s.nextPromiseID
    /\ knownResolutions' = s.knownResolutions
    /\ importedPromises' = s.importedPromises
    /\ alive' = s.alive
    /\ userHeld' = s.userHeld
    /\ droppedRegistry' = s.droppedRegistry
    /\ finalizerQueue' = s.finalizerQueue
    /\ settled' = s.settled
    /\ thens' = s.thens
    /\ pendingSends' = s.pendingSends
    /\ phase' = s.phase
    /\ log' = s.log
    /\ resolvedBefore' = s.resolvedBefore
    /\ subscribedBefore' = s.subscribedBefore
    /\ errors' = s.errors
    /\ cranks' = s.cranks
    /\ notified' = s.notified
    /\ delivery' = s.delivery
    /\ issued' = s.issued
    /\ gcCranks' = s.gcCranks
    /\ previous' = s.previous
    /\ vomReachable' = s.vomReachable
    /\ vomRecognizable' = s.vomRecognizable
    /\ introduced' = introduced \cup
           {v \in Vrefs : v.type = "object" /\ s.slotToVal[v] # NoVal}
    /\ slotsOf' = [v \in Vals |->
           IF v \notin s.alive THEN {}
           ELSE slotsOf[v] \cup ({s.valToSlot[v]} \ {NoSlot})]

(* The turn stops where it needs more than the bounds allow. *)
Exceed(s) == [s EXCEPT !.full = TRUE, !.threw = TRUE]

(* `throw`: the rest of the turn's liveslots code is skipped. *)

Throw(s, what) == [s EXCEPT !.threw = TRUE, !.errors = @ \cup {what}]

(* The end of a turn whose exception was caught (logged, or turned into a  *)
(* rejection) by its caller.                                               *)
Caught_rethrown(s) == [s EXCEPT !.threw = FALSE, !.phase = IF s.threw THEN "failed" ELSE @]

Caught(s) == [s EXCEPT !.threw = FALSE]


Ret(s, r) == [s |-> s, r |-> r]

(***************************************************************************)
(* JavaScript collections.  A Set iterates in insertion order, so the ones *)
(* liveslots iterates are sequences without repetition.                    *)
(***************************************************************************)
SetHas(seq, x) == \E i \in 1..Len(seq) : seq[i] = x

SetAdd(seq, x) == IF SetHas(seq, x) THEN seq ELSE Append(seq, x)

SetDelete(seq, x) == SelectSeq(seq, LAMBDA y : y # x)

Elems(seq) == {seq[i] : i \in 1..Len(seq)}

RECURSIVE Dedup(_)
Dedup(seq) ==
    IF seq = <<>> THEN <<>>
    ELSE LET front == Dedup(SubSeq(seq, 1, Len(seq) - 1))
         IN SetAdd(front, seq[Len(seq)])

(***************************************************************************)
(* Array.prototype.sort() without a comparator: by the text of the         *)
(* elements, in code-unit order.                                           *)
(***************************************************************************)
RECURSIVE TextLess(_, _)
TextLess(a, b) ==
    IF b = <<>> THEN FALSE
    ELSE IF a = <<>> THEN TRUE
    ELSE IF Head(a) # Head(b) THEN Head(a) < Head(b)
    ELSE TextLess(Tail(a), Tail(b))

VrefLess(x, y) == TextLess(VrefText(x), VrefText(y))

RECURSIVE InsertSorted(_, _)
InsertSorted(sorted, x) ==
    IF sorted = <<>> THEN <<x>>
    ELSE IF VrefLess(x, Head(sorted)) THEN <<x>> \o sorted
    ELSE <<Head(sorted)>> \o InsertSorted(Tail(sorted), x)

(* `list.sort()` left out. *)
sort_omitted(list) == list

RECURSIVE sort(_)
sort(list) ==
    IF list = <<>> THEN <<>>
    ELSE InsertSorted(sort(SubSeq(list, 1, Len(list) - 1)), list[Len(list)])

(***************************************************************************)
(* The syscall object: every call is appended to the crank's log.          *)
(***************************************************************************)
Emit(s, call) == [s EXCEPT !.log = Append(@, call)]

SysSend(target, slots, result) ==
    [type |-> "send", target |-> target, slots |-> slots, result |-> result]
SysResolve(resolutions) == [type |-> "resolve", resolutions |-> resolutions]
SysSubscribe(vpid) == [type |-> "subscribe", vpid |-> vpid]
SysCallNow(target, slots) == [type |-> "callNow", target |-> target, slots |-> slots]
SysExit(isFailure, slots) == [type |-> "exit", isFailure |-> isFailure, slots |-> slots]
SysDropImports(vrefs) == [type |-> "dropImports", vrefs |-> vrefs]
SysRetireImports(vrefs) == [type |-> "retireImports", vrefs |-> vrefs]
SysRetireExports(vrefs) == [type |-> "retireExports", vrefs |-> vrefs]

GCSyscalls == {"dropImports", "retireImports", "retireExports"}

(***************************************************************************)
(* WeakRef and FinalizationRegistry.  slotToVal[vref] is NoVal when the    *)
(* Map has no entry, DeadVal when it holds a WeakRef whose referent was    *)
(* collected, and the referent otherwise.                                  *)
(***************************************************************************)
DeadVal == <<"dead", 0>>

HasEntry(s, slot) == s.slotToVal[slot] # NoVal

Deref(s, slot) ==
    IF s.slotToVal[slot] \in Vals THEN s.slotToVal[slot] ELSE NoVal

Register(s, val, slot) == [s EXCEPT !.droppedRegistry[val] = slot]

Unregister(s, val) == [s EXCEPT !.droppedRegistry[val] = NoSlot]

(* A free identity of the pool, for `new`: the least, identities being     *)
(* interchangeable.                                                        *)
Fresh(s, pool) ==
    IF pool \subseteq s.alive THEN NoVal
    ELSE CHOOSE v \in pool \ s.alive : \A w \in pool \ s.alive : v[2] <= w[2]

New(s, pool, held) ==
    LET v == Fresh(s, pool) IN
    IF v = NoVal THEN Ret(Exceed(s), NoVal)
    ELSE Ret([s EXCEPT !.alive = @ \cup {v},
                       !.userHeld = IF held THEN @ \cup {v} ELSE @], v)

(* importedDevices: every device node made is added and none is removed. *)
importedDevices(s) == s.alive \cap Devices

(* What keeps a value alive: user code, the strong tables of liveslots,    *)
(* the queued eventual sends, and the settlements of live promises.        *)
StronglyHeld(s) ==
    s.userHeld \cup s.exportedRemotables \cup s.pendingPromises \cup importedDevices(s)
    \cup UNION {Elems(s.pendingSends[i].args) \cup
                {s.pendingSends[i].target, s.pendingSends[i].returnedP}
                : i \in 1..Len(s.pendingSends)}
    \cup UNION {Elems(s.knownResolutions[p].value) \cup Elems(s.settled[p].value)
                : p \in s.alive}

(* The engine collects `val`: weak references to it die, its WeakMap and   *)
(* WeakSet entries go, and a registered finalizer callback is queued.      *)
Collect(s, val) ==
    LET held == s.droppedRegistry[val] IN
    [s EXCEPT !.alive = @ \ {val},
              !.slotToVal = [v \in Vrefs |-> IF @[v] = val THEN DeadVal ELSE @[v]],
              !.valToSlot[val] = NoSlot,
              !.knownResolutions[val] = NoRes,
              !.settled[val] = NoRes,
              !.disavowedPresences = @ \ {val},
              !.droppedRegistry[val] = NoSlot,
              !.finalizerQueue = IF held = NoSlot THEN @
                                 ELSE [@ EXCEPT ![held] = @ + 1]]

(***************************************************************************)
(* Slot registry.                                                          *)
(***************************************************************************)
retainExportedRemotable(s, vref) ==
    IF s.threw THEN s
    ELSE IF vref.type = "object" /\ vref.allocatedByVat /\ ~vref.virtual
    THEN LET remotable == Deref(s, vref) IN
         IF remotable = NoVal THEN Throw(s, "lostRemotable")
         ELSE [s EXCEPT !.exportedRemotables = @ \cup {remotable}]
    ELSE s

RECURSIVE retainAll(_, _)
retainAll(s, slots) ==
    IF slots = <<>> THEN s
    ELSE retainAll(retainExportedRemotable(s, Head(slots)), Tail(slots))

(* finalizeDroppedImport without `slotToVal.delete(vref)`. *)
finalizeDroppedImport_keepEntry(s, vref) ==
    IF HasEntry(s, vref) /\ Deref(s, vref) = NoVal
    THEN [s EXCEPT !.deadSet = SetAdd(@, vref)]
    ELSE s

(* finalizeDroppedImport without `deadSet.add(vref)`. *)
finalizeDroppedImport_noDeadSet(s, vref) ==
    IF HasEntry(s, vref) /\ Deref(s, vref) = NoVal
    THEN [s EXCEPT !.slotToVal[vref] = NoVal]
    ELSE s

(* finalizeDroppedImport without its test of the weak reference. *)
finalizeDroppedImport_unguarded(s, vref) ==
    [s EXCEPT !.deadSet = SetAdd(@, vref), !.slotToVal[vref] = NoVal]

finalizeDroppedImport(s, vref) ==
    IF HasEntry(s, vref) /\ Deref(s, vref) = NoVal
    THEN [s EXCEPT !.deadSet = SetAdd(@, vref), !.slotToVal[vref] = NoVal]
    ELSE s

(* allocatePromiseID that forgets `nextPromiseID += 1`. *)
allocatePromiseID_same(s) == Ret(s, makeVatSlot("promise", TRUE, s.nextPromiseID))

(* allocateExportID that increments before it reads the counter's base. *)
allocateExportID_fromRoot(s) ==
    IF s.nextExportID > MaxExportID THEN Ret(Exceed(s), MaxExportID)
    ELSE Ret([s EXCEPT !.nextExportID = @ + 1], s.nextExportID - FirstExportID)

allocateExportID(s) ==
    IF s.nextExportID > MaxExportID THEN Ret(Exceed(s), MaxExportID)
    ELSE Ret([s EXCEPT !.nextExportID = @ + 1], s.nextExportID)

allocatePromiseID(s) ==
    IF s.nextPromiseID > MaxPromiseID
    THEN Ret(Exceed(s), makeVatSlot("promise", TRUE, MaxPromiseID))
    ELSE Ret([s EXCEPT !.nextPromiseID = @ + 1],
             makeVatSlot("promise", TRUE, s.nextPromiseID))

exportPromise(s, p) ==
    LET a == allocatePromiseID(s) IN
    IF ~s.knownResolutions[p].known
    THEN Ret([a.s EXCEPT !.thens = @ \cup {[p |-> p, promiseID |-> a.r]}], a.r)
    ELSE a

exportPassByPresence(s) ==
    LET a == allocateExportID(s) IN Ret(a.s, makeVatSlot("object", TRUE, a.r))

exitVatWithFailure(s) == Emit(s, SysExit(TRUE, <<>>))

(* The tail of convertValToSlot for a new export: `a` is the state and    *)
(* the slot that exportPromise or exportPassByPresence returned.           *)
recordExport(a, val) ==
    IF a.r.type = "object"
    THEN Ret(Register([a.s EXCEPT !.valToSlot[val] = a.r, !.slotToVal[a.r] = val,
                                  !.deadSet = SetDelete(@, a.r)], val, a.r), a.r)
    ELSE Ret([a.s EXCEPT !.valToSlot[val] = a.r, !.slotToVal[a.r] = val], a.r)

pinPromise(a, val) == Ret([a.s EXCEPT !.pendingPromises = @ \cup {val}], a.r)

(* convertValToSlot without the `isPromise(val)` branch. *)
convertValToSlot_noPromiseTest(s, val) ==
    IF s.valToSlot[val] # NoSlot THEN Ret(s, s.valToSlot[val])
    ELSE IF val \in s.disavowedPresences
    THEN Ret(Throw(exitVatWithFailure(s), "disavowed"), NoSlot)
    ELSE recordExport(exportPassByPresence(s), val)

convertValToSlot(s, val) ==
    IF s.valToSlot[val] # NoSlot THEN Ret(s, s.valToSlot[val])
    ELSE IF isPromise(val)
    THEN recordExport(pinPromise(exportPromise(s, val), val), val)
    ELSE IF val \in s.disavowedPresences
    THEN Ret(Throw(exitVatWithFailure(s), "disavowed"), NoSlot)
    ELSE recordExport(exportPassByPresence(s), val)

(* registerValue without `deadSet.delete(slot)`. *)
registerValue_keepDead(s, slot, val) ==
    LET s1 == [s EXCEPT !.slotToVal[slot] = val, !.valToSlot[val] = slot] IN
    IF slot.type = "object" THEN Register(s1, val, slot) ELSE s1

registerValue(s, slot, val) ==
    LET s1 == [s EXCEPT !.slotToVal[slot] = val, !.valToSlot[val] = slot] IN
    IF slot.type = "object"
    THEN Register([s1 EXCEPT !.deadSet = SetDelete(@, slot)], val, slot)
    ELSE s1

makeImportedPresence(s, slot) == New(s, Presences, FALSE)

makePipelinablePromise(s, vpid, p) ==
    [s EXCEPT !.importedPromisesByPromiseID[vpid] = p]

(* `n` is the state and the value that `new` returned. *)
importPresence(n, slot) ==
    IF n.r = NoVal THEN n ELSE Ret(registerValue(n.s, slot, n.r), n.r)

importPromise(n, slot) ==
    IF n.r = NoVal THEN n ELSE
    Ret(registerValue(
            [(IF n.s.importedPromises.collecting
              THEN [n.s EXCEPT !.importedPromises.set = SetAdd(@, slot)]
              ELSE Emit(n.s, SysSubscribe(slot)))
             EXCEPT !.importedPromisesByPromiseID[slot] = n.r,
                    !.pendingPromises = @ \cup {n.r}],
            slot, n.r),
        n.r)

importDevice(n, slot) ==
    IF n.r = NoVal THEN n ELSE Ret(registerValue(n.s, slot, n.r), n.r)

(* convertSlotToVal that looks up slotToVal for object vrefs only. *)
convertSlotToVal_noPromiseLookup(s, slot) ==
    IF slot.type = "object" /\ Deref(s, slot) # NoVal THEN Ret(s, Deref(s, slot))
    ELSE IF slot.allocatedByVat THEN Ret(Throw(s, "unknownExport"), NoVal)
    ELSE IF slot.type = "object"
    THEN importPresence(makeImportedPresence(s, slot), slot)
    ELSE importPromise(New(s, Promises, FALSE), slot)

(* convertSlotToVal that looks up slotToVal for the vat's own vrefs only. *)
convertSlotToVal_noImportLookup(s, slot) ==
    IF slot.allocatedByVat /\ Deref(s, slot) # NoVal THEN Ret(s, Deref(s, slot))
    ELSE IF slot.allocatedByVat THEN Ret(Throw(s, "unknownExport"), NoVal)
    ELSE IF slot.type = "object"
    THEN importPresence(makeImportedPresence(s, slot), slot)
    ELSE importPromise(New(s, Promises, FALSE), slot)

convertSlotToVal(s, slot) ==
    IF Deref(s, slot) # NoVal THEN Ret(s, Deref(s, slot))
    ELSE IF slot.allocatedByVat THEN Ret(Throw(s, "unknownExport"), NoVal)
    ELSE IF slot.type = "object"
    THEN importPresence(makeImportedPresence(s, slot), slot)
    ELSE IF slot.type = "promise"
    THEN importPromise(New(s, Promises, FALSE), slot)
    ELSE importDevice(New(s, Devices, FALSE), slot)

(***************************************************************************)
(* The marshaller.  A passable value is the sequence of the capabilities   *)
(* (Remotables, Presences, Promises) it holds; its serialization is the    *)
(* slot list of its capdata.                                               *)
(***************************************************************************)
RECURSIVE serializeCaps(_, _, _)
RECURSIVE unserializeSlots(_, _, _)

(* `a` is what convertValToSlot returned for the capability before `caps`. *)
serializeNext(a, caps, slots) ==
    IF a.s.threw THEN Ret(a.s, slots)
    ELSE serializeCaps(a.s, caps, Append(slots, a.r))

serializeCaps(s, caps, slots) ==
    IF caps = <<>> THEN Ret(s, slots)
    ELSE serializeNext(convertValToSlot(s, Head(caps)), Tail(caps), slots)

serialize(s, value) == serializeCaps(s, Dedup(value), <<>>)

unserializeNext(a, slots, vals) ==
    IF a.s.threw THEN Ret(a.s, vals)
    ELSE unserializeSlots(a.s, slots, Append(vals, a.r))

unserializeSlots(s, slots, vals) ==
    IF slots = <<>> THEN Ret(s, vals)
    ELSE unserializeNext(convertSlotToVal(s, Head(slots)), Tail(slots), vals)

unserialize(s, slots) == unserializeSlots(s, slots, <<>>)

(* m.serialize(...) without slots.map(retainExportedRemotable). *)
retained_skipped(ser) == ser

(* m.serialize(...) followed by slots.map(retainExportedRemotable). *)
retained(ser) == Ret(retainAll(ser.s, ser.r), ser.r)

(***************************************************************************)
(* Resolution collector.                                                   *)
(***************************************************************************)
Collector(s) == [s |-> s, resolutions |-> <<>>, doneResolutions |-> {}]

RECURSIVE scanSlots(_, _)
RECURSIVE collect(_, _, _, _)

(* scanSlots with a bound on the batch in place of doneResolutions. *)
scanOne_lengthBound(c, slot, p) ==
    IF slot.type # "promise" THEN c
    ELSE IF p = NoVal THEN [c EXCEPT !.s = Throw(@, "noValueForSlot")]
    ELSE IF c.s.knownResolutions[p].known /\ Len(c.resolutions) < 3
    THEN collect(c, slot, c.s.knownResolutions[p].rejected, c.s.knownResolutions[p].value)
    ELSE c

scanOne(c, slot, p) ==
    IF slot.type # "promise" THEN c
    ELSE IF p = NoVal THEN [c EXCEPT !.s = Throw(@, "noValueForSlot")]
    ELSE IF c.s.knownResolutions[p].known /\ slot \notin c.doneResolutions
    THEN collect(c, slot, c.s.knownResolutions[p].rejected, c.s.knownResolutions[p].value)
    ELSE c

scanSlots(c, slots) ==
    IF slots = <<>> \/ c.s.threw THEN c
    ELSE scanSlots(scanOne(c, Head(slots), Deref(c.s, Head(slots))), Tail(slots))

(* `valueSer` is the serialized and retained value. *)
collected(c, promiseID, rejected, valueSer) ==
    IF valueSer.s.threw
    THEN [c EXCEPT !.s = valueSer.s, !.doneResolutions = @ \cup {promiseID}]
    ELSE scanSlots([s |-> valueSer.s,
                    resolutions |-> Append(c.resolutions,
                        [vpid |-> promiseID, rejected |-> rejected,
                         slots |-> valueSer.r]),
                    doneResolutions |-> c.doneResolutions \cup {promiseID}],
                   valueSer.r)

collect(c, promiseID, rejected, value) ==
    collected(c, promiseID, rejected, retained(serialize(c.s, value)))

forPromise(s, promiseID, rejected, value) ==
    collect(Collector(s), promiseID, rejected, value)

forSlots(s, slots) == scanSlots(Collector(s), slots)

(***************************************************************************)
(* Outbound messages.                                                      *)
(***************************************************************************)
(* queueMessage without `syscall.subscribe(resultVPID)`. *)
queueMessageDone_noSubscribe(c, resultVPID, returnedP) ==
    IF c.s.threw THEN c.s
    ELSE [(IF Len(c.resolutions) > 0
           THEN Emit(c.s, SysResolve(c.resolutions)) ELSE c.s)
          EXCEPT !.valToSlot[returnedP] = resultVPID,
                 !.slotToVal[resultVPID] = returnedP,
                 !.pendingPromises = @ \cup {returnedP}]

(* queueMessage after the opportunistic scan `c` of the argument slots. *)
queueMessageDone(c, resultVPID, returnedP) ==
    IF c.s.threw THEN c.s
    ELSE [Emit(IF Len(c.resolutions) > 0
               THEN Emit(c.s, SysResolve(c.resolutions)) ELSE c.s,
               SysSubscribe(resultVPID))
          EXCEPT !.valToSlot[returnedP] = resultVPID,
                 !.slotToVal[resultVPID] = returnedP,
                 !.pendingPromises = @ \cup {returnedP}]

(* queueMessage from the allocation `a` of the result vpid on. *)
queueMessageSend(a, targetSlot, slots, returnedP) ==
    queueMessageDone(
        forSlots(Emit(makePipelinablePromise(a.s, a.r, returnedP),
                      SysSend(targetSlot, slots, a.r)),
                 slots),
        a.r, returnedP)

queueMessageArgs(serArgs, targetSlot, returnedP) ==
    IF serArgs.s.threw THEN serArgs.s
    ELSE queueMessageSend(allocatePromiseID(serArgs.s), targetSlot, serArgs.r, returnedP)

queueMessage(s, targetSlot, args, returnedP) ==
    queueMessageArgs(retained(serialize(s, args)), targetSlot, returnedP)

(* fulfilledHandler.applyMethod of a Presence. *)
presenceApplyMethod(s, o, args, returnedP) ==
    IF o \in s.disavowedPresences
    THEN Throw(exitVatWithFailure(s), "disavowed")
    ELSE queueMessage(s, s.valToSlot[o], args, returnedP)

(***************************************************************************)
(* Device calls.                                                           *)
(***************************************************************************)
forbidPromises(serArgs) ==
    IF serArgs.s.threw THEN serArgs
    ELSE IF \E i \in 1..Len(serArgs.r) : serArgs.r[i].type = "promise"
    THEN Ret(Throw(serArgs.s, "promiseInDeviceCall"), serArgs.r)
    ELSE serArgs

(* The method of DeviceHandler from syscall.callNow on; `ret` is the       *)
(* capdata the kernel returns.                                             *)
deviceCallNow(serArgs, slot, ret) ==
    IF serArgs.s.threw THEN serArgs.s
    ELSE unserialize(Emit(serArgs.s, SysCallNow(slot, serArgs.r)), ret).s

DeviceHandler(s, slot, args, ret) ==
    deviceCallNow(forbidPromises(retained(serialize(s, args))), slot, ret)

(* D(x).method(...args) *)
D(s, x, args, ret) ==
    IF s.valToSlot[x] = NoSlot \/ s.valToSlot[x].type # "device"
    THEN Throw(s, "notDeviceNode")
    ELSE DeviceHandler(s, s.valToSlot[x], args, ret)

(***************************************************************************)
(* Promise resolution.                                                     *)
(***************************************************************************)
(* resolve/reject of a promise: the first settlement stands. *)
Settle(s, p, rejected, value) ==
    IF p \in Vals /\ ~s.settled[p].known
    THEN [s EXCEPT !.settled[p] = Res(rejected, value)]
    ELSE s

retirePromiseID(s, promiseID) ==
    [s EXCEPT !.importedPromisesByPromiseID[promiseID] = NoVal,
              !.valToSlot = IF Deref(s, promiseID) # NoVal
                            THEN [@ EXCEPT ![Deref(s, promiseID)] = NoSlot] ELSE @,
              !.pendingPromises = @ \ {Deref(s, promiseID)},
              !.slotToVal[promiseID] = NoVal]

(* The anonymous promise HandledPromise.applyMethod returns to deliver():  *)
(* nothing but its then-callback ever refers to it.                        *)
resPromise == <<"Promise", 0>>

(* thenHandler after the collector `c` has gathered the resolutions. *)
thenResolved(c, promiseID, rejected, value) ==
    IF c.s.threw THEN c.s
    ELSE retirePromiseID(
             Settle(Emit(c.s, SysResolve(c.resolutions)),
                    c.s.importedPromisesByPromiseID[promiseID], rejected, value),
             promiseID)

(* thenHandler that reports every outcome as a fulfilment. *)
thenHandler_notRejected(s, p, promiseID, rejected, value) ==
    thenResolved(
        forPromise(IF p \in Vals
                   THEN [s EXCEPT !.knownResolutions[p] = Res(FALSE, value)] ELSE s,
                   promiseID, FALSE, value),
        promiseID, FALSE, value)

thenHandler(s, p, promiseID, rejected, value) ==
    thenResolved(
        forPromise(IF p \in Vals
                   THEN [s EXCEPT !.knownResolutions[p] = Res(rejected, value)] ELSE s,
                   promiseID, rejected, value),
        promiseID, rejected, value)

(***************************************************************************)
(* Dispatch core: the handlers of the five delivery kinds.                 *)
(***************************************************************************)
(* A user method that is invoked with `args` holds them. *)
Invoke(s, args) == [s EXCEPT !.userHeld = @ \cup Elems(args)]

(* deliver from res.then(notifySuccess, notifyFailure) on. *)
deliverResult(s, result) ==
    IF result = NoSlot THEN s
    ELSE IF result.type # "promise" THEN Throw(s, "insistVatType")
    ELSE [s EXCEPT !.thens = @ \cup {[p |-> resPromise, promiseID |-> result]}]

deliverArgs(args, result) ==
    IF args.s.threw THEN args.s
    ELSE deliverResult(Invoke(args.s, args.r), result)

deliverTarget(t, argsdata, result) ==
    IF t.s.threw THEN t.s
    ELSE deliverArgs(unserialize(t.s, argsdata), result)

deliver(s, target, argsdata, result) ==
    IF ~s.didRoot THEN Throw(s, "assert")
    ELSE deliverTarget(convertSlotToVal(s, target), argsdata, result)

notifyResolve(val, pRec, rejected) ==
    IF val.s.threw THEN val.s
    ELSE Settle(val.s, pRec, rejected, val.r)

notifyOnePromise(s, promiseID, rejected, data) ==
    IF promiseID.type # "promise" THEN Throw(s, "insistVatType")
    ELSE IF s.importedPromisesByPromiseID[promiseID] = NoVal
    THEN Throw(s, "unknownPromiseID")
    ELSE notifyResolve(unserialize(s, data),
                       s.importedPromisesByPromiseID[promiseID], rejected)

beginCollectingPromiseImports(s) ==
    [s EXCEPT !.importedPromises = [collecting |-> TRUE, set |-> <<>>]]

finishCollectingPromiseImports(s) ==
    Ret([s EXCEPT !.importedPromises = [collecting |-> FALSE, set |-> <<>>]],
        s.importedPromises.set)

RECURSIVE notifyEach(_, _)
notifyEach(s, resolutions) ==
    IF resolutions = <<>> \/ s.threw THEN s
    ELSE LET r == Head(resolutions)
         IN notifyEach(notifyOnePromise(s, r.vpid, r.rejected, r.slots), Tail(resolutions))

(* The second loop of notify left out. *)
retireEach_none(s, resolutions) == s

RECURSIVE retireEach(_, _)
retireEach(s, resolutions) ==
    IF resolutions = <<>> THEN s
    ELSE retireEach(retirePromiseID(s, Head(resolutions).vpid), Tail(resolutions))

(* The third loop of notify without its `slotToVal.get(slot)` test. *)
RECURSIVE subscribeEach_all(_, _)
subscribeEach_all(s, imports) ==
    IF imports = <<>> THEN s
    ELSE subscribeEach_all(Emit(s, SysSubscribe(Head(imports))), Tail(imports))

RECURSIVE subscribeEach(_, _)
subscribeEach(s, imports) ==
    IF imports = <<>> THEN s
    ELSE subscribeEach(IF HasEntry(s, Head(imports))
                       THEN Emit(s, SysSubscribe(Head(imports))) ELSE s,
                       Tail(imports))

notifySubscribe(imports) == subscribeEach(imports.s, imports.r)

(* notify after the first loop has left the state `s`. *)
notifyRetire(s, resolutions) ==
    IF s.threw THEN s
    ELSE notifySubscribe(finishCollectingPromiseImports(retireEach(s, resolutions)))

notify(s, resolutions) ==
    IF ~s.didRoot THEN Throw(s, "assert")
    ELSE notifyRetire(notifyEach(beginCollectingPromiseImports(s), resolutions),
                      resolutions)

(* dropExports that drops every export, named or not. *)
dropEach_every(s, vrefs) == [s EXCEPT !.exportedRemotables = {}]

RECURSIVE dropEach(_, _)
dropEach(s, vrefs) ==
    IF vrefs = <<>> THEN s
    ELSE LET o == Deref(s, Head(vrefs))
         IN dropEach(IF o # NoVal THEN [s EXCEPT !.exportedRemotables = @ \ {o}] ELSE s,
                     Tail(vrefs))

dropExports(s, vrefs) ==
    IF \E i \in 1..Len(vrefs) : vrefs[i].type # "object" THEN Throw(s, "insistVatType")
    ELSE IF \E i \in 1..Len(vrefs) : ~vrefs[i].allocatedByVat THEN Throw(s, "assert")
    ELSE dropEach(s, vrefs)

(* retireOneExport without the `exportedRemotables.has(val)` test. *)
retireOneExport_pinned(s, vref) ==
    IF vref.type # "object" THEN Throw(s, "insistVatType")
    ELSE IF ~vref.allocatedByVat THEN Throw(s, "assert")
    ELSE IF vref.virtual THEN s
    ELSE IF ~HasEntry(s, vref) THEN s
    ELSE LET val == Deref(s, vref) IN
         IF val = NoVal THEN [s EXCEPT !.slotToVal[vref] = NoVal]
         ELSE [Unregister(s, val) EXCEPT !.valToSlot[val] = NoSlot,
                                         !.slotToVal[vref] = NoVal]

retireOneExport(s, vref) ==
    IF vref.type # "object" THEN Throw(s, "insistVatType")
    ELSE IF ~vref.allocatedByVat THEN Throw(s, "assert")
    ELSE IF vref.virtual THEN s
    ELSE IF ~HasEntry(s, vref) THEN s
    ELSE LET val == Deref(s, vref) IN
         IF val = NoVal THEN [s EXCEPT !.slotToVal[vref] = NoVal]
         ELSE IF val \in s.exportedRemotables THEN s
         ELSE [Unregister(s, val) EXCEPT !.valToSlot[val] = NoSlot,
                                         !.slotToVal[vref] = NoVal]

(* retireExports that stops after the first vref of its list. *)
retireExports_first(s, vrefs) ==
    IF vrefs = <<>> THEN s ELSE retireOneExport(s, Head(vrefs))

RECURSIVE retireExports(_, _)
retireExports(s, vrefs) ==
    IF vrefs = <<>> \/ s.threw THEN s
    ELSE retireExports(retireOneExport(s, Head(vrefs)), Tail(vrefs))

(* retireImports that forgets the Presences of the named vrefs. *)
retireImports_forget(s, vrefs) ==
    [s EXCEPT !.slotToVal =
        [v \in Vrefs |-> IF \E i \in 1..Len(vrefs) : vrefs[i] = v
                          THEN NoVal ELSE s.slotToVal[v]]]

retireImports(s, vrefs) ==
    IF \E i \in 1..Len(vrefs) : vrefs[i].type # "object" THEN Throw(s, "insistVatType")
    ELSE IF \E i \in 1..Len(vrefs) : vrefs[i].allocatedByVat THEN Throw(s, "assert")
    ELSE s

(* disavow without `syscall.dropImports([slot])`. *)
disavow_noSyscall(s, presence) ==
    LET slot == s.valToSlot[presence] IN
    IF slot = NoSlot THEN Throw(s, "disavowUnknown")
    ELSE IF slot.type # "object" THEN Throw(s, "disavowNonObject")
    ELSE IF slot.allocatedByVat THEN Throw(s, "disavowExport")
    ELSE [s EXCEPT !.valToSlot[presence] = NoSlot,
                   !.slotToVal[slot] = NoVal,
                   !.disavowedPresences = @ \cup {presence}]

(* disavow without `slotToVal.delete(slot)`. *)
disavow_keepSlot(s, presence) ==
    LET slot == s.valToSlot[presence] IN
    IF slot = NoSlot THEN Throw(s, "disavowUnknown")
    ELSE IF slot.type # "object" THEN Throw(s, "disavowNonObject")
    ELSE IF slot.allocatedByVat THEN Throw(s, "disavowExport")
    ELSE Emit([s EXCEPT !.valToSlot[presence] = NoSlot,
                        !.disavowedPresences = @ \cup {presence}],
              SysDropImports(<<slot>>))

disavow(s, presence) ==
    LET slot == s.valToSlot[presence] IN
    IF slot = NoSlot THEN Throw(s, "disavowUnknown")
    ELSE IF slot.type # "object" THEN Throw(s, "disavowNonObject")
    ELSE IF slot.allocatedByVat THEN Throw(s, "disavowExport")
    ELSE Emit([s EXCEPT !.valToSlot[presence] = NoSlot,
                        !.slotToVal[slot] = NoVal,
                        !.disavowedPresences = @ \cup {presence}],
              SysDropImports(<<slot>>))

setBuildRootObject(s, userKeepsRoot) ==
    LET s1 == [s EXCEPT !.didRoot = TRUE,
                        !.alive = @ \cup {rootObject},
                        !.userHeld = IF userKeepsRoot THEN @ \cup {rootObject} ELSE @,
                        !.valToSlot[rootObject] = rootSlot,
                        !.slotToVal[rootSlot] = rootObject]
    IN retainExportedRemotable(s1, rootSlot)

(***************************************************************************)
(* Distributed GC engine.                                                  *)
(***************************************************************************)
(* The virtual object manager knows the vrefs that the state of a virtual  *)
(* object names, and those that are keys of its weak collections.          *)
isVrefReachable(s, vref) == vref \in s.vomReachable

isVrefRecognizable(s, vref) == vref \in s.vomRecognizable

(* The virtual object manager makes the representative of a virtual object *)
(* and registers it with the registerValue it was given.                   *)
makeVirtualObjectRepresentative(s, slot) ==
    LET n == New(s, Representatives, TRUE) IN
    IF n.r = NoVal THEN n.s ELSE registerValue(n.s, slot, n.r)

(* A processDroppedRepresentative that always reports more work. *)
processDroppedRepresentative_more(vref) == TRUE

processDroppedRepresentative(vref) == FALSE

(* The test of processDeadSet without `isVrefReachable(vref)`. *)
Presence2Drop_always(s, vref) == ~vref.virtual /\ ~vref.allocatedByVat

Presence2Drop(s, vref) ==
    ~vref.virtual /\ ~vref.allocatedByVat /\ ~isVrefReachable(s, vref)

(* The syscall made without the `if (list.length)` test. *)
EmitSorted_always(s, type, list) == Emit(s, [type |-> type, vrefs |-> sort(list)])

(* One of the three `if (list.length) syscall...(list.sort())` statements. *)
EmitSorted(s, type, list) ==
    IF Len(list) > 0 THEN Emit(s, [type |-> type, vrefs |-> sort(list)]) ELSE s

importsToDrop(s) == SelectSeq(s.deadSet, LAMBDA v : Presence2Drop(s, v))

(* processDeadSet that retires no import. *)
importsToRetire_none(s) == <<>>

importsToRetire(s) ==
    SelectSeq(s.deadSet,
              LAMBDA v : Presence2Drop(s, v) /\ ~isVrefRecognizable(s, v))

exportsToRetire(s) == SelectSeq(s.deadSet, LAMBDA v : ~v.virtual /\ v.allocatedByVat)

doMore(s) ==
    \E i \in 1..Len(s.deadSet) :
        s.deadSet[i].virtual /\ processDroppedRepresentative(s.deadSet[i])

(* processDeadSet without `deadSet.clear()`. *)
processDeadSet_noClear(s) ==
    Ret(EmitSorted(
            EmitSorted(
                EmitSorted(s, "dropImports", importsToDrop(s)),
                "retireImports", importsToRetire(s)),
            "retireExports", exportsToRetire(s)),
        doMore(s))

processDeadSet(s) ==
    IF \E i \in 1..Len(s.deadSet) : s.deadSet[i].type # "object"
    THEN Ret(Throw(s, "unpreparedToTrack"), FALSE)
    ELSE Ret(EmitSorted(
                 EmitSorted(
                     EmitSorted([s EXCEPT !.deadSet = <<>>],
                                "dropImports", importsToDrop(s)),
                     "retireImports", importsToRetire(s)),
                 "retireExports", exportsToRetire(s)),
             doMore(s))

(* gcAndFinalize: a full collection, then every queued finalizer callback. *)
Garbage(s) == s.alive \ StronglyHeld(s)

RECURSIVE CollectAll(_)
CollectAll(s) ==
    IF Garbage(s) = {} THEN s
    ELSE CollectAll(Collect(s, CHOOSE v \in Garbage(s) : TRUE))

RECURSIVE FinalizeAll(_)
FinalizeAll(s) ==
    IF \A v \in Vrefs : s.finalizerQueue[v] = 0 THEN s
    ELSE LET vref == CHOOSE v \in Vrefs : s.finalizerQueue[v] > 0
         IN FinalizeAll(finalizeDroppedImport(
                [s EXCEPT !.finalizerQueue[vref] = @ - 1], vref))

gcAndFinalize(s) == FinalizeAll(CollectAll(s))


(***************************************************************************)
(* The state machine.                                                      *)
(***************************************************************************)
Init ==
    /\ didRoot = FALSE
    /\ valToSlot = [v \in Vals |-> NoSlot]
    /\ slotToVal = [v \in Vrefs |-> NoVal]
    /\ exportedRemotables = {}
    /\ pendingPromises = {}
    /\ deadSet = <<>>
    /\ disavowedPresences = {}
    /\ importedPromisesByPromiseID = [v \in Vrefs |-> NoVal]
    /\ nextExportID = FirstExportID
    /\ nextPromiseID = FirstPromiseID
    /\ knownResolutions = [v \in Vals |-> NoRes]
    /\ importedPromises = [collecting |-> FALSE, set |-> <<>>]
    /\ alive = {}
    /\ userHeld = {}
    /\ droppedRegistry = [v \in Vals |-> NoSlot]
    /\ finalizerQueue = [v \in Vrefs |-> 0]
    /\ settled = [v \in Vals |-> NoRes]
    /\ thens = {}
    /\ pendingSends = <<>>
    /\ phase = "idle"
    /\ log = <<>>
    /\ resolvedBefore = {}
    /\ subscribedBefore = {}
    /\ errors = {}
    /\ cranks = 0
    /\ notified = {}
    /\ delivery = NoDelivery
    /\ introduced = {}
    /\ issued = <<>>
    /\ gcCranks = 0
    /\ slotsOf = [v \in Vals |-> {}]
    /\ previous = <<>>
    /\ vomReachable = {}
    /\ vomRecognizable = {}

SetBuildRootObject ==
    /\ ~didRoot
    /\ \E userKeepsRoot \in BOOLEAN : Commit(setBuildRootObject(Cur, userKeepsRoot))

(* The vpids of the syscall.resolve and syscall.subscribe calls of a log. *)
ResolvedIn(l) ==
    UNION {{l[i].resolutions[j].vpid : j \in 1..Len(l[i].resolutions)}
           : i \in {k \in 1..Len(l) : l[k].type = "resolve"}}

SubscribedIn(l) == {l[i].vpid : i \in {k \in 1..Len(l) : l[k].type = "subscribe"}}

(* dispatch(delivery): the kernel calls it when the previous one has       *)
(* completed; the delivery is handled in the first turn of the crank, and  *)
(* an exception of the handler is caught and logged.                       *)
BeginCrank(s, d) == [s EXCEPT !.phase = "user", !.cranks = @ + 1, !.delivery = d]

BeginGCCrank(s, d) == [s EXCEPT !.phase = "user", !.gcCranks = @ + 1, !.delivery = d]

CanDispatch == phase = "idle" /\ cranks < MaxCranks

CanDispatchGC == phase = "idle" /\ gcCranks < MaxGCCranks

(* The kernel retires a vpid once its resolution has crossed the vat       *)
(* boundary, in either direction, and names it in no later delivery.       *)
RetiredVpids == resolvedBefore \cup ResolvedIn(log) \cup notified

Named(slots) == {slots[i] : i \in 1..Len(slots)}

DispatchMessage(target, argsdata, result) ==
    /\ CanDispatch
    /\ (Named(argsdata) \cup {result}) \cap RetiredVpids = {}
    /\ \A t \in thens : t.promiseID # result
    /\ Commit(Caught(deliver(
           BeginCrank(Cur, [type |-> "message", target |-> target,
                            args |-> argsdata, result |-> result]),
           target, argsdata, result)))

DispatchNotify(resolutions) ==
    /\ CanDispatch
    /\ \A i \in 1..Len(resolutions) :
           (Named(resolutions[i].slots) \cup {resolutions[i].vpid}) \cap RetiredVpids = {}
    /\ Commit(Caught(notify(
           [BeginCrank(Cur, [type |-> "notify", resolutions |-> resolutions])
            EXCEPT !.notified =
               @ \cup {resolutions[i].vpid : i \in 1..Len(resolutions)}],
           resolutions)))

DispatchDropExports(vrefs) ==
    /\ CanDispatchGC
    /\ Commit(Caught(dropExports(BeginGCCrank(Cur, [type |-> "dropExports", vrefs |-> vrefs]), vrefs)))

DispatchRetireExports(vrefs) ==
    /\ CanDispatchGC
    /\ Commit(Caught(retireExports(BeginGCCrank(Cur, [type |-> "retireExports", vrefs |-> vrefs]), vrefs)))

DispatchRetireImports(vrefs) ==
    /\ CanDispatchGC
    /\ Commit(Caught(retireImports(BeginGCCrank(Cur, [type |-> "retireImports", vrefs |-> vrefs]), vrefs)))

(***************************************************************************)
(* User code, one turn at a time.                                          *)
(***************************************************************************)
(* User code runs in the cranks that invoke it: a method for a message, a  *)
(* then-callback for a notify.  The GC deliveries invoke none, and there   *)
(* is no user code before buildRootObject has been called.                 *)
UserRuns == didRoot /\ phase = "user" /\ delivery.type \in {"message", "notify"}

UserTurn == UserRuns /\ Len(log) < MaxLog

UserDrop(v) ==
    /\ UserRuns
    /\ v \in userHeld
    /\ Commit([Cur EXCEPT !.userHeld = @ \ {v}])

(* User code makes a Remotable: a new object, never the root again. *)
UserMakeRemotable ==
    /\ UserRuns
    /\ Commit(New(Cur, Remotables \ {rootObject}, TRUE).s)

UserMakePromise ==
    /\ UserRuns
    /\ Commit(New(Cur, Promises, TRUE).s)

(* User code settles a promise it made. *)
UserSettle(p, rejected, value) ==
    /\ UserRuns
    /\ p \in userHeld /\ isPromise(p)
    /\ \A v \in Vrefs : importedPromisesByPromiseID[v] # p
    /\ ~settled[p].known
    /\ Elems(value) \subseteq userHeld
    /\ Commit(Settle(Cur, p, rejected, value))

(* A then-callback of user code receives the settlement of a promise. *)
UserThen(p) ==
    /\ UserRuns
    /\ p \in userHeld /\ settled[p].known
    /\ ~(Elems(settled[p].value) \subseteq userHeld)
    /\ Commit(Invoke(Cur, settled[p].value))

(* The then-callback liveslots attached in exportPromise. *)
ThenFire(p, promiseID) ==
    /\ [p |-> p, promiseID |-> promiseID] \in thens
    /\ p \in Vals /\ settled[p].known
    /\ Commit(Caught(thenHandler([Cur EXCEPT !.thens = @ \ {[p |-> p, promiseID |-> promiseID]}],
                                 p, promiseID, settled[p].rejected, settled[p].value)))

(* The outcome of a delivered method settles: the then-callback of deliver. *)
UserReturn(promiseID, rejected, value) ==
    /\ UserTurn
    /\ [p |-> resPromise, promiseID |-> promiseID] \in thens
    /\ Elems(value) \subseteq userHeld
    /\ Commit(Caught(thenHandler(
           [Cur EXCEPT !.thens = @ \ {[p |-> resPromise, promiseID |-> promiseID]}],
           resPromise, promiseID, rejected, value)))

(* E(target).method(...args): HandledPromise makes the result promise now  *)
(* and calls the handler of the target in a later turn.                    *)
HasHandler(target) ==
    \/ target \in Presences
    \/ isPromise(target) /\ \E v \in Vrefs : importedPromisesByPromiseID[v] = target
    \/ \E i \in 1..Len(pendingSends) : pendingSends[i].returnedP = target

(* The vpid that the unfulfilledHandler of a pipelinable promise closes     *)
(* over: the one makePipelinablePromise was called with.                   *)
handlerVpid(s, target) ==
    IF \E v \in Vrefs : s.importedPromisesByPromiseID[v] = target
    THEN CHOOSE v \in Vrefs : s.importedPromisesByPromiseID[v] = target
    ELSE NoSlot

UserSend(target, args, keep) ==
    /\ UserTurn
    /\ Len(pendingSends) < MaxSends
    /\ target \in userHeld /\ HasHandler(target)
    /\ Elems(args) \subseteq userHeld
    /\ LET n == New(Cur, Promises, keep)
       IN Commit([n.s EXCEPT !.pendingSends =
                     Append(@, [target |-> target, args |-> args, returnedP |-> n.r]),
                             !.issued = Append(@, n.r)])

(* The handler of the send issued last runs first. *)
HandlerTurn_lastFirst ==
    /\ pendingSends # <<>>
    /\ LET call == pendingSends[Len(pendingSends)]
           s == [Cur EXCEPT !.pendingSends = SubSeq(@, 1, Len(@) - 1)]
       IN Commit(Caught(
              IF call.target \in Presences
              THEN presenceApplyMethod(s, call.target, call.args, call.returnedP)
              ELSE IF handlerVpid(s, call.target) # NoSlot /\ ~s.settled[call.target].known
              THEN queueMessage(s, handlerVpid(s, call.target), call.args, call.returnedP)
              ELSE s))

HandlerTurn ==
    /\ pendingSends # <<>>
    /\ LET call == Head(pendingSends)
           s == [Cur EXCEPT !.pendingSends = Tail(@)]
       IN Commit(Caught(
              IF call.target \in Presences
              THEN presenceApplyMethod(s, call.target, call.args, call.returnedP)
              ELSE IF handlerVpid(s, call.target) # NoSlot /\ ~s.settled[call.target].known
              THEN queueMessage(s, handlerVpid(s, call.target), call.args, call.returnedP)
              ELSE s))

(* User code calls a method of a device, synchronously. *)
UserDeviceCall(x, args) ==
    /\ UserTurn
    /\ x \in userHeld /\ Elems(args) \subseteq userHeld
    /\ Commit(Caught(D(Cur, x, args, <<>>)))

(* User code makes a virtual object and holds its representative. *)
UserMakeVirtual ==
    /\ UserRuns
    /\ Commit(makeVirtualObjectRepresentative(Cur, FirstVirtual))

(* User code stores a Presence in the state of a virtual object, or makes  *)
(* it a key of a weak collection.                                          *)
UserStore(presence, weak) ==
    /\ UserRuns
    /\ presence \in userHeld /\ presence \in Presences
    /\ valToSlot[presence] # NoSlot
    /\ Commit(IF weak
              THEN [Cur EXCEPT !.vomRecognizable = @ \cup {valToSlot[presence]}]
              ELSE [Cur EXCEPT !.vomReachable = @ \cup {valToSlot[presence]}])

UserDisavow(presence) ==
    /\ UserTurn
    /\ presence \in userHeld /\ presence \in Presences
    /\ Commit(Caught(disavow(Cur, presence)))

(***************************************************************************)
(* The engine: garbage collection and finalizer callbacks, between turns.  *)
(***************************************************************************)
Queued == {<<vref, i>> \in Vrefs \X (1..MaxQueued) : i <= finalizerQueue[vref]}

(* The engine collects and calls finalizers between turns, within a crank  *)
(* and between cranks.                                                      *)
EngineRuns == phase \in {"idle", "user", "gc"}

EngineGC(v) ==
    /\ EngineRuns
    /\ v \in Garbage(Cur)
    /\ droppedRegistry[v] # NoSlot => Cardinality(Queued) < MaxQueued
    /\ Commit(Collect(Cur, v))

RunFinalizer(vref) ==
    /\ EngineRuns
    /\ finalizerQueue[vref] > 0
    /\ Commit(finalizeDroppedImport([Cur EXCEPT !.finalizerQueue[vref] = @ - 1], vref))

(***************************************************************************)
(* The rest of dispatch(): quiescence, then the GC drain.                  *)
(***************************************************************************)
(* dispatch() goes on without `await waitUntilQuiescent()`. *)
Quiescent_notAwaited == TRUE

(* The promise queue is empty: no handler and no then-callback is due. *)
Quiescent ==
    /\ pendingSends = <<>>
    /\ \A t \in thens : t.p \in Vals => ~settled[t.p].known

WaitUntilQuiescent ==
    /\ phase = "user"
    /\ Quiescent
    /\ Commit([Cur EXCEPT !.phase = "gc"])

(* `await gcAndFinalize()`: the forced pass finds everything, or the       *)
(* engine has done what it did by the time the await returns.              *)
GcAndFinalize(complete) ==
    /\ phase = "gc"
    /\ Commit([(IF complete THEN gcAndFinalize(Cur) ELSE Cur) EXCEPT !.phase = "drain"])

(* `const doMore = processDeadSet(); if (doMore) return finish();`  An     *)
(* exception of processDeadSet rejects the promise dispatch() returned:    *)
(* nothing catches it.                                                     *)
finishStep(r) ==
    [r.s EXCEPT !.threw = FALSE,
                !.phase = IF r.s.threw THEN "failed" ELSE IF r.r THEN "gc" ELSE "done"]

ProcessDeadSet ==
    /\ phase = "drain"
    /\ Commit(finishStep(processDeadSet(Cur)))

(* The promise dispatch() returned fulfils: the kernel has the crank's     *)
(* syscalls and may make the next delivery.                                *)
Return ==
    /\ phase = "done"
    /\ Commit([Cur EXCEPT !.phase = "idle", !.log = <<>>, !.errors = {},
                          !.delivery = NoDelivery, !.issued = <<>>,
                          !.previous = IF delivery.type = "dropExports"
                                       THEN delivery.vrefs ELSE <<>>,
                          !.resolvedBefore = @ \cup ResolvedIn(log),
                          !.subscribedBefore = @ \cup SubscribedIn(log)])

(***************************************************************************)
(* Specifications.  Each takes the deliveries and the user code that one   *)
(* part of liveslots is about, over the same state machine.                *)
(***************************************************************************)
Engine ==
    \/ \E v \in Vals : EngineGC(v)
    \/ \E vref \in Vrefs : RunFinalizer(vref)

Finish ==
    \/ WaitUntilQuiescent
    \/ \E complete \in BOOLEAN : GcAndFinalize(complete)
    \/ ProcessDeadSet
    \/ Return

(* The capdata slots a delivery carries, and the arguments of user code. *)
FirstImport == CHOOSE v \in KernelObjects : \A w \in KernelObjects : v.id <= w.id

SlotLists(pool) == {<<>>} \cup {<<a>> : a \in pool} \cup {<<a, b>> : a, b \in pool}

ValLists(pool) == {<<>>} \cup {<<a>> : a \in userHeld \cap pool}

Resolutions(pool) ==
    {[vpid |-> v, rejected |-> r, slots |-> sl] :
        v \in KernelPromises, r \in BOOLEAN, sl \in SlotLists(pool)}

Batches(pool) ==
    {<<r>> : r \in Resolutions(pool)} \cup {<<r, q>> : r, q \in Resolutions(pool)}

(* Imports: Presences come in with messages, user code drops or disavows   *)
(* them, the engine collects them and the GC drain reports them.           *)
NextImports ==
    \/ SetBuildRootObject
    \/ \E argsdata \in SlotLists(KernelObjects) :
           DispatchMessage(rootSlot, argsdata, NoSlot)
    \/ \E vref \in KernelObjects : DispatchRetireImports(<<vref>>)
    \/ \E v \in Vals : UserDrop(v)
    \/ \E presence \in Presences : UserDisavow(presence)
    \/ Engine
    \/ Finish

SpecImports == Init /\ [][NextImports]_vars

(* Exports: user code sends its Remotables to an imported Presence, the    *)
(* kernel drops and retires them, the engine collects at any time.  The    *)
(* kernel makes MaxCranks deliveries of any kind.                          *)
FewDeliveries == cranks + gcCranks < MaxCranks

NextExports ==
    \/ SetBuildRootObject
    \/ \E argsdata \in SlotLists({FirstImport}) \ {<<>>} :
           FewDeliveries /\ DispatchMessage(rootSlot, <<argsdata[1]>>, NoSlot)
    \/ \E vref \in VatObjects : FewDeliveries /\ DispatchDropExports(<<vref>>)
    \/ \E vref \in VatObjects : FewDeliveries /\ DispatchRetireExports(<<vref>>)
    \/ \E v \in Vals : UserDrop(v)
    \/ UserMakeRemotable
    \/ \E target \in Presences, args \in ValLists(Remotables) :
           UserSend(target, args, FALSE)
    \/ HandlerTurn
    \/ \E presence \in Presences : UserDisavow(presence)
    \/ Engine
    \/ Finish

SpecExports == Init /\ [][NextExports]_vars

(* Retirement: the kernel drops and retires exports between the messages   *)
(* in which user code sends its Remotables, the root object and the        *)
(* Presences it holds, and disavows Presences; the engine collects in      *)
(* gcAndFinalize.                                                          *)
NextRetire ==
    \/ SetBuildRootObject
    \/ \E argsdata \in {<<FirstImport>>, <<rootSlot>>} :
           DispatchMessage(rootSlot, argsdata, NoSlot)
    \/ \E vref \in VatObjects : DispatchDropExports(<<vref>>)
    \/ \E vref \in VatObjects : DispatchRetireExports(<<vref>>)
    \/ \E v \in Vals : UserDrop(v)
    \/ UserMakeRemotable
    \/ \E target \in Presences, args \in ValLists(Remotables \cup Presences) :
           UserSend(target, args, FALSE)
    \/ HandlerTurn
    \/ \E presence \in Presences : UserDisavow(presence)
    \/ Finish

SpecRetire == Init /\ [][NextRetire]_vars

(* Resolutions: user code settles promises it has returned or sent. *)
NextResolve ==
    \/ SetBuildRootObject
    \/ \E argsdata \in {<<>>, <<FirstImport>>}, result \in KernelPromises \cup {NoSlot} :
           DispatchMessage(rootSlot, argsdata, result)
    \/ UserMakePromise
    \/ \E p \in Promises, value \in ValLists(Promises) : UserSettle(p, FALSE, value)
    \/ \E p \in Promises, promiseID \in VatPromises : ThenFire(p, promiseID)
    \/ \E promiseID \in KernelPromises, value \in ValLists(Promises) :
           UserReturn(promiseID, FALSE, value)
    \/ \E target \in Presences, args \in ValLists(Promises) : UserSend(target, args, FALSE)
    \/ HandlerTurn
    \/ Finish

SpecResolve == Init /\ [][NextResolve]_vars

(* Subscriptions: the kernel names its promises in messages and notifies   *)
(* their resolutions.                                                      *)
NextSubscribe ==
    \/ SetBuildRootObject
    \/ \E argsdata \in SlotLists(KernelPromises) :
           DispatchMessage(rootSlot, argsdata, NoSlot)
    \/ \E resolutions \in Batches(KernelPromises) : DispatchNotify(resolutions)
    \/ \E p \in Promises : UserThen(p)
    \/ \E v \in Vals : UserDrop(v) \/ EngineGC(v)
    \/ Finish

SpecSubscribe == Init /\ [][NextSubscribe]_vars

(* Re-export: a message brings a Presence and a kernel promise, the kernel *)
(* notifies the promise's resolution, and user code sends the promise to   *)
(* the Presence before or after that.                                      *)
NextReexport ==
    \/ SetBuildRootObject
    \/ \E vpid \in KernelPromises : DispatchMessage(rootSlot, <<FirstImport, vpid>>, NoSlot)
    \/ \E r \in Resolutions({}) : DispatchNotify(<<r>>)
    \/ \E target \in Presences, args \in ValLists(Promises) : UserSend(target, args, FALSE)
    \/ HandlerTurn
    \/ \E p \in Promises, promiseID \in VatPromises : ThenFire(p, promiseID)
    \/ Finish

SpecReexport == Init /\ [][NextReexport]_vars

(* GC deliveries: the kernel drops and retires, one or two at a time and   *)
(* in any order, the root object, the first export and the first import,   *)
(* rightly or wrongly; user code exports and drops a Remotable; the engine *)
(* collects at any time.                                                   *)
FirstExport == makeVatSlot("object", TRUE, FirstExportID)

(* One delivery more than MaxCranks, of any kind. *)
SomeDeliveries == cranks + gcCranks <= MaxCranks

NextGC ==
    \/ SetBuildRootObject
    \/ SomeDeliveries /\ DispatchMessage(rootSlot, <<FirstImport>>, NoSlot)
    \/ \E vrefs \in SlotLists({rootSlot, FirstExport, FirstImport}) :
           SomeDeliveries /\ DispatchDropExports(vrefs)
    \/ \E vrefs \in SlotLists({rootSlot, FirstExport, FirstImport}) :
           SomeDeliveries /\ DispatchRetireExports(vrefs)
    \/ \E vrefs \in SlotLists({rootSlot, FirstImport}) :
           SomeDeliveries /\ DispatchRetireImports(vrefs)
    \/ \E v \in Vals : UserDrop(v)
    \/ UserMakeRemotable
    \/ \E target \in Presences, args \in ValLists(Remotables) :
           UserSend(target, args, FALSE)
    \/ HandlerTurn
    \/ Engine
    \/ Finish

SpecGC == Init /\ [][NextGC]_vars

(* Virtual objects: user code stores the Presence it receives in a virtual *)
(* object or a weak collection, makes a virtual object, exports a          *)
(* Remotable that the kernel drops, and drops what it holds; the engine    *)
(* collects at any time.                                                   *)
NextVOM ==
    \/ SetBuildRootObject
    \/ FewDeliveries /\ DispatchMessage(rootSlot, <<FirstImport>>, NoSlot)
    \/ FewDeliveries /\ DispatchDropExports(<<FirstExport>>)
    \/ \E v \in Vals : UserDrop(v)
    \/ \E presence \in Presences, weak \in BOOLEAN : UserStore(presence, weak)
    \/ UserMakeVirtual
    \/ UserMakeRemotable
    \/ \E target \in Presences, args \in ValLists(Remotables) :
           UserSend(target, args, FALSE)
    \/ HandlerTurn
    \/ Engine
    \/ Finish

SpecVOM == Init /\ [][NextVOM]_vars

(* Results: the kernel sends messages with a result promise; the invoked   *)
(* method returns or throws, possibly a Presence user code has disavowed.  *)
NextResult ==
    \/ SetBuildRootObject
    \/ \E argsdata \in {<<FirstImport>>} \cup SlotLists(KernelPromises),
          result \in KernelPromises :
           DispatchMessage(rootSlot, argsdata, result)
    \/ \E presence \in Presences : UserDisavow(presence)
    \/ \E promiseID \in KernelPromises, rejected \in BOOLEAN,
          value \in ValLists(Presences \cup Promises) :
           UserReturn(promiseID, rejected, value)
    \/ Finish

SpecResult == Init /\ [][NextResult]_vars

(* Devices: a message brings a device node; user code calls the device     *)
(* with the promises and Remotables it makes, and settles the promises.    *)
NextDevices ==
    \/ SetBuildRootObject
    \/ DispatchMessage(rootSlot, <<FirstDevice>>, NoSlot)
    \/ UserMakePromise
    \/ UserMakeRemotable
    \/ \E p \in Promises : UserSettle(p, FALSE, <<>>)
    \/ \E x \in Devices, args \in ValLists(Promises \cup Remotables) : UserDeviceCall(x, args)
    \/ \E p \in Promises, promiseID \in VatPromises : ThenFire(p, promiseID)
    \/ Finish

SpecDevices == Init /\ [][NextDevices]_vars

(* Errors: deliveries that are well-formed or malformed (an export the vat *)
(* never made, a notify of an unknown promise, GC deliveries that name a   *)
(* vref of the wrong allocator), user code that disavows, drops and sends  *)
(* Presences.                                                              *)
NextErrors ==
    \/ SetBuildRootObject
    \/ \E target \in {rootSlot, makeVatSlot("object", TRUE, FirstExportID)} :
           DispatchMessage(target, <<FirstImport>>, NoSlot)
    \/ \E r \in Resolutions({}) : DispatchNotify(<<r>>)
    \/ \E vref \in {rootSlot, FirstImport} : DispatchDropExports(<<vref>>)
    \/ \E vref \in {rootSlot, FirstImport} : DispatchRetireExports(<<vref>>)
    \/ \E vref \in {rootSlot, FirstImport} : DispatchRetireImports(<<vref>>)
    \/ \E v \in Vals : UserDrop(v)
    \/ \E presence \in Presences : UserDisavow(presence)
    \/ \E target \in Presences, args \in ValLists(Presences) : UserSend(target, args, FALSE)
    \/ HandlerTurn
    \/ Finish

SpecErrors == Init /\ [][NextErrors]_vars

(* Allocation: user code exports its Remotables and promises as arguments  *)
(* of sends, every send allocates its result vpid, and the kernel drops    *)
(* and retires the export so that a later send exports the Remotable anew. *)
NextAllocate ==
    \/ SetBuildRootObject
    \/ DispatchMessage(rootSlot, <<FirstImport>>, NoSlot)
    \/ DispatchDropExports(<<FirstExport>>)
    \/ DispatchRetireExports(<<FirstExport>>)
    \/ UserMakeRemotable
    \/ UserMakePromise
    \/ \E target \in Presences, args \in ValLists(Remotables \cup Promises),
          keep \in BOOLEAN : UserSend(target, args, keep)
    \/ HandlerTurn
    \/ Finish

SpecAllocate == Init /\ [][NextAllocate]_vars

(* Failed sends: one message brings two Presences; user code disavows      *)
(* one, makes a Remotable and sends it, alone or followed by a Presence,   *)
(* and drops what it likes.                                                *)
ArgPairs == {<<r, o>> : r \in Remotables \cap userHeld, o \in Presences \cap userHeld}

NextFailedSend ==
    \/ SetBuildRootObject
    \/ \E other \in KernelObjects \ {FirstImport} :
           DispatchMessage(rootSlot, <<FirstImport, other>>, NoSlot)
    \/ UserMakeRemotable
    \/ \E presence \in Presences : UserDisavow(presence)
    \/ \E v \in Vals : UserDrop(v)
    \/ \E target \in Presences, args \in ValLists(Remotables) \cup ArgPairs :
           UserSend(target, args, FALSE)
    \/ HandlerTurn
    \/ Finish

SpecFailedSend == Init /\ [][NextFailedSend]_vars

(* Results in device calls: a message brings a Presence and a device node; *)
(* user code sends to the Presence and passes promises, the results of its *)
(* sends among them, to the device.                                        *)
NextDeviceSend ==
    \/ SetBuildRootObject
    \/ DispatchMessage(rootSlot, <<FirstImport, FirstDevice>>, NoSlot)
    \/ \E target \in Presences : UserSend(target, <<>>, TRUE)
    \/ \E x \in Devices, args \in ValLists(Promises) : UserDeviceCall(x, args)
    \/ \E v \in Vals : UserDrop(v)
    \/ HandlerTurn
    \/ Finish

SpecDeviceSend == Init /\ [][NextDeviceSend]_vars

(* Pipelining: user code sends to a Presence and to the result promise of  *)
(* an earlier send; a delivered method returns a promise of user code,     *)
(* which settles it and sends it as an argument before or after that.      *)
NextPipeline ==
    \/ SetBuildRootObject
    \/ \E result \in KernelPromises : DispatchMessage(rootSlot, <<FirstImport>>, result)
    \/ UserMakePromise
    \/ \E p \in Promises : UserSettle(p, FALSE, <<>>)
    \/ \E p \in Promises, promiseID \in VatPromises : ThenFire(p, promiseID)
    \/ \E promiseID \in KernelPromises, value \in ValLists(Promises) :
           UserReturn(promiseID, FALSE, value)
    \/ \E target \in Presences \cup Promises, args \in ValLists(Promises),
          keep \in BOOLEAN : UserSend(target, args, keep)
    \/ HandlerTurn
    \/ Finish

SpecPipeline == Init /\ [][NextPipeline]_vars

(***************************************************************************)
(* Properties of the slot registry.                                        *)
(***************************************************************************)
InDeadSet(vref) == \E i \in 1..Len(deadSet) : deadSet[i] = vref

IsKey(vref) == slotToVal[vref] # NoVal

IsLive(vref) == slotToVal[vref] \in Vals

(* C1: in every reachable state no vref is both a member of deadSet and a  *)
(* key of slotToVal.                                                       *)
C1_DeadSetDisjoint == \A vref \in Vrefs : ~(InDeadSet(vref) /\ IsKey(vref))

(* A finalized import waits in deadSet while another import is registered  *)
(* and a finalizer callback is still queued.                               *)
C1_Witness ==
    \E vref, other \in KernelObjects :
        /\ InDeadSet(vref) /\ IsKey(other)
        /\ \E q \in Vrefs : finalizerQueue[q] > 0

(* C2 as stated: every object vref the vat has imported or exported is in  *)
(* exactly one of deadSet and slotToVal.                                   *)
C2_ExactlyOne == \A vref \in introduced : InDeadSet(vref) # IsKey(vref)

(* The steps that take a vref out of both tables: the GC drain that        *)
(* reports it, disavow of its Presence, and a retireExports delivery.      *)
Removal(vref) ==
    \/ phase = "drain" /\ InDeadSet(vref)
    \/ /\ phase = "user"
       /\ \E p \in Presences :
              valToSlot[p] = vref /\ p \in disavowedPresences' \ disavowedPresences
    \/ /\ phase = "idle" /\ delivery'.type = "retireExports"
       /\ vref \in Named(delivery'.vrefs)

(* C2: an object vref the vat has imported or exported is never in both    *)
(* deadSet and slotToVal, and it leaves both only when the GC drain        *)
(* reports it, when its Presence is disavowed, or when the kernel retires  *)
(* the export; it is then in neither until it is introduced again.         *)
C2_AtMostOne ==
    /\ [](\A vref \in introduced : ~(InDeadSet(vref) /\ IsKey(vref)))
    /\ [][\A vref \in introduced :
              ((InDeadSet(vref) \/ IsKey(vref))
                  /\ ~(InDeadSet(vref) \/ IsKey(vref))') => Removal(vref)]_vars

(* The GC drain has reported a collected export: it is in neither table. *)
C2_Witness ==
    \E vref \in introduced :
        /\ vref.allocatedByVat /\ ~InDeadSet(vref) /\ ~IsKey(vref)
        /\ \E i \in 1..Len(log) :
               log[i].type = "retireExports" /\ vref \in Named(log[i].vrefs)

(* C3: syscall.dropImports and syscall.retireImports never name a vref for *)
(* which slotToVal holds a live Presence: a vref re-introduced after its   *)
(* earlier Presence was collected or finalized is not reported by the GC   *)
(* drain that follows.                                                     *)
C3_NoLiveImportReported ==
    \A i \in 1..Len(log) :
        log[i].type \in {"dropImports", "retireImports"}
            => \A vref \in Named(log[i].vrefs) : ~IsLive(vref)

(* The drain of the second crank has reported an import, and not the vref  *)
(* that was re-introduced while the finalizer callback of its collected    *)
(* Presence was still queued.                                              *)
C3_Witness ==
    /\ phase = "done" /\ delivery.type = "message"
    /\ \E vref \in KernelObjects :
           /\ IsLive(vref) /\ finalizerQueue[vref] > 0
           /\ vref \in Named(delivery.args)
           /\ \E i \in 1..Len(log) :
                  log[i].type = "dropImports" /\ vref \notin Named(log[i].vrefs)

(* C4: a kernel-allocated object vref that syscall.dropImports has named   *)
(* is in neither slotToVal nor deadSet, and the convertSlotToVal that      *)
(* introduces an absent vref again registers a new Presence under the same *)
(* vref in slotToVal, valToSlot and the finalization registry.             *)
C4_DroppedThenFresh ==
    /\ [](\A i \in 1..Len(log) :
              log[i].type = "dropImports"
                  => \A vref \in Named(log[i].vrefs) :
                         ~IsKey(vref) /\ ~InDeadSet(vref))
    /\ [][\A vref \in KernelObjects :
              (~IsLive(vref) /\ IsLive(vref)')
                  => /\ slotToVal'[vref] \in Presences \ alive
                     /\ valToSlot'[slotToVal'[vref]] = vref
                     /\ droppedRegistry'[slotToVal'[vref]] = vref
                     /\ ~InDeadSet(vref)']_vars

(* A vref that disavow reported with dropImports has been introduced again *)
(* under a new Presence, the disavowed one being still alive.              *)
C4_Witness ==
    \E d \in disavowedPresences :
        /\ d \in alive /\ droppedRegistry[d] # NoSlot
        /\ slotToVal[droppedRegistry[d]] \in Presences \ {d}
        /\ valToSlot[slotToVal[droppedRegistry[d]]] = droppedRegistry[d]

(* C9: the vref list of every dropImports, retireImports and retireExports *)
(* syscall is in ascending lexicographic order of the vref texts, without  *)
(* a duplicate.                                                            *)
C9_SortedNoDuplicates ==
    \A i \in 1..Len(log) :
        log[i].type \in GCSyscalls
            => \A j, k \in 1..Len(log[i].vrefs) :
                   j < k => TextLess(VrefText(log[i].vrefs[j]), VrefText(log[i].vrefs[k]))

(* The GC drain has reported two imports at once: o-10 before o-2. *)
C9_Witness ==
    \E i \in 1..Len(log) :
        /\ log[i].type = "dropImports" /\ Len(log[i].vrefs) = 2
        /\ log[i].vrefs[1].id > log[i].vrefs[2].id

(***************************************************************************)
(* Properties of the order of syscalls.                                    *)
(***************************************************************************)
(* The syscalls a step appends to the log of the crank. *)
Appended == {i \in 1..Len(log') : i > Len(log)}

Extends == Len(log') >= Len(log) /\ SubSeq(log', 1, Len(log)) = log

(* C10 as stated: within one crank no user-initiated syscall follows a GC  *)
(* syscall.                                                                *)
C10_NoUserAfterGC ==
    \A i, j \in 1..Len(log) :
        (i < j /\ log[i].type \in GCSyscalls) => log[j].type \in GCSyscalls

(* C10: once user code is quiescent the crank emits GC syscalls only, so   *)
(* the GC syscalls of the GC drain follow every user-initiated syscall of  *)
(* the crank; the one GC syscall emitted earlier is the dropImports of     *)
(* disavow, which names the disavowed Presence's vref and which            *)
(* user-initiated syscalls may follow.                                     *)
C10_DrainAfterUser ==
    [][/\ phase \in {"gc", "drain", "done"}
          => \/ phase' = "idle" /\ log' = <<>>
             \/ Extends /\ \A i \in Appended : log'[i].type \in GCSyscalls
       /\ phase \in {"idle", "user"}
          => \A i \in Appended :
                 log'[i].type \in GCSyscalls
                     => /\ log'[i].type = "dropImports"
                        /\ \E p \in disavowedPresences' \ disavowedPresences :
                               log'[i].vrefs = <<valToSlot[p]>>]_vars

(* A crank with the dropImports of disavow, then a user-initiated syscall, *)
(* then a GC syscall of the drain.                                         *)
C10_Witness ==
    /\ phase = "done"
    /\ \E i, j, k \in 1..Len(log) :
           /\ i < j /\ j < k
           /\ log[i].type = "dropImports" /\ log[j].type \notin GCSyscalls
           /\ log[k].type \in GCSyscalls

(***************************************************************************)
(* Properties of promise resolution.                                       *)
(***************************************************************************)
Vpids(call) == {call.resolutions[j].vpid : j \in 1..Len(call.resolutions)}

(* C5: every batch passed to syscall.resolve names each vpid at most once. *)
C5_BatchDistinct ==
    \A i \in 1..Len(log) :
        log[i].type = "resolve"
            => \A j, k \in 1..Len(log[i].resolutions) :
                   j # k => log[i].resolutions[j].vpid # log[i].resolutions[k].vpid

(* A batch of two promises that are resolved to each other. *)
C5_Witness ==
    \E i \in 1..Len(log) :
        /\ log[i].type = "resolve" /\ Len(log[i].resolutions) = 2
        /\ log[i].resolutions[2].vpid \in Named(log[i].resolutions[1].slots)
        /\ log[i].resolutions[1].vpid \in Named(log[i].resolutions[2].slots)

(* C6 as stated: a vpid that has appeared in a syscall.resolve batch       *)
(* appears in no later batch and is the result of no later syscall.send.   *)
C6_NoReappearance ==
    \A i \in 1..Len(log) :
        /\ log[i].type = "resolve"
           => /\ Vpids(log[i]) \cap resolvedBefore = {}
              /\ \A k \in 1..Len(log) :
                     (k < i /\ log[k].type = "resolve")
                         => Vpids(log[i]) \cap Vpids(log[k]) = {}
        /\ log[i].type = "send"
           => /\ log[i].result \notin resolvedBefore
              /\ \A k \in 1..Len(log) :
                     (k < i /\ log[k].type = "resolve") => log[i].result \notin Vpids(log[k])

(***************************************************************************)
(* Properties of promise subscription.                                     *)
(***************************************************************************)
(* C7: syscall.subscribe is issued at most once for a kernel-allocated     *)
(* promise vref, over all cranks.                                          *)
C7_SubscribeOnce ==
    \A i \in 1..Len(log) :
        (log[i].type = "subscribe" /\ ~log[i].vpid.allocatedByVat)
            => /\ log[i].vpid \notin subscribedBefore
               /\ \A k \in 1..Len(log) :
                      (k < i /\ log[k].type = "subscribe") => log[k].vpid # log[i].vpid

(* A notify batch whose two entries both name a promise the vat did not    *)
(* know has subscribed to it.                                              *)
C7_Witness ==
    /\ phase = "done" /\ delivery.type = "notify" /\ Len(delivery.resolutions) = 2
    /\ \E vpid \in KernelPromises :
           /\ vpid \in Named(delivery.resolutions[1].slots)
           /\ vpid \in Named(delivery.resolutions[2].slots)
           /\ vpid \in SubscribedIn(log)

(* C8 as stated: when a crank ends, every kernel-allocated promise vref    *)
(* that convertSlotToVal has imported and that is not retired has been     *)
(* subscribed.                                                             *)
C8_ImportedSubscribed ==
    phase = "done"
        => \A vpid \in KernelPromises :
               importedPromisesByPromiseID[vpid] # NoVal
                   => vpid \in subscribedBefore \cup SubscribedIn(log)

(***************************************************************************)
(* Properties of outbound messages.                                        *)
(***************************************************************************)
(* The result promises of the syscall.send calls of the log, in log order. *)
RECURSIVE SentPromises(_)
SentPromises(l) ==
    IF l = <<>> THEN <<>>
    ELSE IF Head(l).type = "send"
    THEN <<importedPromisesByPromiseID[Head(l).result]>> \o SentPromises(Tail(l))
    ELSE SentPromises(Tail(l))

(* `a` is `b` with some elements left out, the order kept. *)
RECURSIVE IsSubsequence(_, _)
IsSubsequence(a, b) ==
    IF a = <<>> THEN TRUE
    ELSE IF b = <<>> THEN FALSE
    ELSE IF Head(a) = Head(b) THEN IsSubsequence(Tail(a), Tail(b))
    ELSE IsSubsequence(a, Tail(b))

(* C11: within a crank the syscall.send calls are in the order in which    *)
(* user code issued the eventual sends, whatever resolve and subscribe     *)
(* syscalls come between them.                                             *)
C11_SendOrder == IsSubsequence(SentPromises(log), issued)

(* The two eventual sends of a crank have both been sent, the subscribe   *)
(* of the first between them.                                              *)
C11_Witness ==
    /\ Len(issued) = 2 /\ issued[1] # issued[2]
    /\ SentPromises(log) = issued
    /\ \E i, j, k \in 1..Len(log) :
           /\ i < j /\ j < k
           /\ log[i].type = "send" /\ log[j].type = "subscribe" /\ log[k].type = "send"

(***************************************************************************)
(* Round trips of exports.                                                 *)
(***************************************************************************)
(* C12 as stated: a Remotable has one vref for as long as it lives,        *)
(* whatever was serialized, delivered, dropped and retired meanwhile.      *)
C12_OneVrefForLife ==
    \A r \in Remotables \cap alive : Cardinality(slotsOf[r]) <= 1

(* C12: the vref of a registered Remotable changes in no step of any       *)
(* serialization, delivery or dropExports; it is removed, never replaced,  *)
(* and removed only when the Remotable is collected or when a              *)
(* retireExports delivery names it while the Remotable is not pinned in    *)
(* exportedRemotables.  A second vref is allocated only after a removal.   *)
C12_OneVrefUntilRetired ==
    [][\A r \in Remotables :
          /\ (valToSlot[r] # NoSlot /\ valToSlot'[r] # valToSlot[r]) =>
                 /\ valToSlot'[r] = NoSlot
                 /\ \/ r \notin alive'
                    \/ /\ delivery'.type = "retireExports"
                       /\ valToSlot[r] \in Named(delivery'.vrefs)
                       /\ r \notin exportedRemotables
          /\ (slotsOf[r] # {} /\ ~(slotsOf'[r] \subseteq slotsOf[r])) =>
                 valToSlot[r] = NoSlot]_vars

(* A Remotable the kernel has dropped is sent again in the next message,   *)
(* under the vref of its first export.                                     *)
C12_Witness ==
    /\ cranks = 2 /\ gcCranks = 1 /\ delivery.type = "message"
    /\ \E r \in (Remotables \cap alive) \ {rootObject} :
          /\ slotsOf[r] = {makeVatSlot("object", TRUE, FirstExportID)}
          /\ valToSlot[r] = makeVatSlot("object", TRUE, FirstExportID)
          /\ nextExportID = FirstExportID + 1
          /\ \E i \in 1..Len(log) : log[i].type = "send" /\ SetHas(log[i].slots, valToSlot[r])

(* convertSlotToVal(convertValToSlot(P)) from the state `s`: the state and *)
(* the value it leaves.                                                    *)
roundTripSlot(a) == IF a.s.threw THEN Ret(a.s, NoVal) ELSE convertSlotToVal(a.s, a.r)

roundTrip(s, val) == roundTripSlot(convertValToSlot(s, val))

(* C13: in every state, serializing a live Presence and deserializing the  *)
(* slot gives the same Presence and leaves every table, the ID counters    *)
(* and the syscall log as they were; the one Presence that has no slot to  *)
(* deserialize is a disavowed one, whose serialization throws and          *)
(* terminates the vat.                                                     *)
C13_PresenceRoundTrip ==
    \A P \in Presences \cap alive :
        IF P \in disavowedPresences
        THEN roundTrip(Cur, P).s = Throw(exitVatWithFailure(Cur), "disavowed")
        ELSE roundTrip(Cur, P) = Ret(Cur, P)

(* The second message names the vref of a Presence that an earlier message *)
(* brought, user code has sent the Presence back as an argument, and it is *)
(* still the only Presence.                                                *)
C13_Witness ==
    /\ cranks = 2 /\ delivery.type = "message" /\ delivery.args = <<FirstImport>>
    /\ \E P \in Presences \cap userHeld :
          /\ Presences \cap alive = {P}
          /\ slotsOf[P] = {FirstImport}
          /\ slotToVal[FirstImport] = P
          /\ \E i \in 1..Len(log) : log[i].type = "send" /\ SetHas(log[i].slots, FirstImport)

(* C14 as stated: after any sequence of deliveries the root object         *)
(* serializes as o+0, and no other value has that vref.                    *)
C14_RootAlwaysZero ==
    /\ (didRoot /\ rootObject \in alive) => convertValToSlot(Cur, rootObject).r = rootSlot
    /\ \A v \in Vals \ {rootObject} : rootSlot \notin slotsOf[v]

(* C14: no value but the root object is ever given o+0; the root object    *)
(* serializes as o+0, allocating nothing, for as long as slotToVal has the *)
(* entry of o+0; and that entry is removed only by a retireExports         *)
(* delivery that names o+0 while the root is collected or not pinned.      *)
C14_RootZeroUntilRetired ==
    /\ [](/\ \A v \in Vals \ {rootObject} : rootSlot \notin slotsOf[v] /\ valToSlot[v] # rootSlot
          /\ slotToVal[rootSlot] \in {NoVal, DeadVal, rootObject}
          /\ slotToVal[rootSlot] = rootObject =>
                 convertValToSlot(Cur, rootObject) = Ret(Cur, rootSlot))
    /\ [][(slotToVal[rootSlot] # NoVal /\ slotToVal'[rootSlot] = NoVal) =>
             /\ delivery'.type = "retireExports"
             /\ rootSlot \in Named(delivery'.vrefs)
             /\ rootObject \notin exportedRemotables]_vars

(* After the kernel's GC deliveries, user code sends the root object in    *)
(* the second message: it goes out as o+0, and nothing else was exported.  *)
C14_Witness ==
    /\ cranks = 2 /\ gcCranks = MaxGCCranks /\ delivery.type = "message"
    /\ valToSlot[rootObject] = rootSlot
    /\ nextExportID = FirstExportID
    /\ \E i \in 1..Len(log) : log[i].type = "send" /\ log[i].slots = <<rootSlot>>

(* The Remotables that the dropExports delivery of the previous crank      *)
(* named and that are still alive, and the vrefs under which the step      *)
(* re-introduces exports: the kernel by a message that names them, the vat *)
(* by a syscall.send that carries them.                                    *)
JustDropped == {r \in Remotables \cap alive' : valToSlot[r] \in Named(previous)}

DeliveredSlots ==
    IF delivery' # delivery /\ delivery'.type = "message"
    THEN Named(delivery'.args) \cup {delivery'.target} ELSE {}

SentSlots == UNION {Named(log'[i].slots) : i \in {k \in Appended : log'[k].type = "send"}}

(* C15 as stated: whichever side re-introduces the export right after its *)
(* dropExports, the Remotable is pinned again.                             *)
C15_RepinnedByAny ==
    [][\A r \in JustDropped :
          valToSlot[r] \in DeliveredSlots \cup SentSlots => r \in exportedRemotables']_vars

(* C15: in the crank after its dropExports, a live Remotable is pinned     *)
(* again by the step in which the vat sends it in a syscall.send; the      *)
(* message delivery that names its vref gives user code the same Remotable *)
(* and leaves exportedRemotables as it was.                                *)
C15_RepinnedBySend ==
    [][/\ \A r \in JustDropped : valToSlot[r] \in SentSlots => r \in exportedRemotables'
       /\ DeliveredSlots # {} => exportedRemotables' = exportedRemotables]_vars

(* The kernel dropped the root object in the previous crank; in this one   *)
(* user code has sent it, and it is pinned.                                *)
C15_Witness ==
    /\ previous = <<rootSlot>>
    /\ delivery.type = "message"
    /\ rootObject \in exportedRemotables
    /\ \E i \in 1..Len(log) : log[i].type = "send" /\ log[i].slots = <<rootSlot>>

(* C16: every Remotable in exportedRemotables is alive and has a vref in   *)
(* valToSlot whose slotToVal entry is a live weak reference to it; its     *)
(* vref is not in deadSet and no syscall.retireExports of the crank names  *)
(* it.                                                                     *)
C16_PinnedExportLive ==
    \A r \in exportedRemotables :
        /\ r \in alive
        /\ valToSlot[r] # NoSlot
        /\ slotToVal[valToSlot[r]] = r
        /\ ~InDeadSet(valToSlot[r])
        /\ \A i \in 1..Len(log) :
               log[i].type = "retireExports" => valToSlot[r] \notin Named(log[i].vrefs)

(* The kernel retires an export that only exportedRemotables keeps alive:  *)
(* the retireExports delivery has been handled and the crank has drained.  *)
C16_Witness ==
    /\ delivery.type = "retireExports" /\ phase = "done"
    /\ \E r \in exportedRemotables \ (userHeld \cup {rootObject}) :
          valToSlot[r] \in Named(delivery.vrefs)

(***************************************************************************)
(* Coordinates of vrefs.                                                   *)
(***************************************************************************)
SameKind(a, b) == a.type = b.type /\ a.virtual = b.virtual

C18_DispatchFulfils ==
    /\ phase # "failed"
    /\ "disavowed" \in errors =>
           \E i \in 1..Len(log) : log[i].type = "exit" /\ log[i].isFailure

(* A malformed GC delivery has thrown in a crank, the drain has reported a *)
(* collected import, and dispatch() has fulfilled its promise.             *)
C18_Witness ==
    /\ phase = "done" /\ errors # {}
    /\ delivery.type \in {"dropExports", "retireExports", "retireImports"}
    /\ \E i \in 1..Len(log) : log[i].type = "retireImports"

(* C19: in a vat whose only serializations are the arguments of device     *)
(* calls, the log of a crank holds nothing but syscall.callNow, and no     *)
(* callNow carries a promise: a call that passes a promise emits nothing,  *)
(* in its turn or later.                                                   *)
C19_NoSyscallFromFailedCall ==
    \A i \in 1..Len(log) :
        /\ log[i].type = "callNow"
        /\ \A j \in 1..Len(log[i].slots) : log[i].slots[j].type # "promise"

(***************************************************************************)
(* Disavowal.                                                              *)
(***************************************************************************)
(* The step is the handler turn of the eventual send issued first. *)
IsHandlerTurn == pendingSends # <<>> /\ pendingSends' = Tail(pendingSends)

(* The send whose handler runs invokes a disavowed Presence, or carries    *)
(* one as its argument.                                                    *)
UsesDisavowed ==
    ({Head(pendingSends).target} \cup Elems(Head(pendingSends).args))
        \cap disavowedPresences # {}

(* C20: the step that disavows a Presence removes it from valToSlot and    *)
(* its vref from slotToVal and appends syscall.dropImports([vref]) to the  *)
(* log; a disavowed Presence is never registered again; and the handler    *)
(* turn of a send that invokes or carries a disavowed Presence throws and  *)
(* appends syscall.exit(true) and nothing else, so no syscall.send.        *)
C20_DisavowedThrows ==
    [][/\ \A P \in Presences :
             (P \notin disavowedPresences /\ P \in disavowedPresences') =>
                 /\ valToSlot[P] # NoSlot /\ valToSlot'[P] = NoSlot
                 /\ slotToVal'[valToSlot[P]] = NoVal
                 /\ log' = Append(log, SysDropImports(<<valToSlot[P]>>))
       /\ \A P \in disavowedPresences :
             valToSlot[P] = NoSlot /\ \A v \in Vrefs : slotToVal[v] # P
       /\ (IsHandlerTurn /\ UsesDisavowed) =>
             /\ log' = Append(log, SysExit(TRUE, <<>>))
             /\ "disavowed" \in errors']_vars

(* User code has disavowed the Presence of the first import and then       *)
(* invoked it or sent it: the log is the dropImports, then the exit.       *)
C20_Witness ==
    /\ log = <<SysDropImports(<<FirstImport>>), SysExit(TRUE, <<>>)>>
    /\ "disavowed" \in errors
    /\ pendingSends = <<>>
    /\ disavowedPresences \cap userHeld # {}

(***************************************************************************)
(* The result of a delivered message.                                      *)
(***************************************************************************)
(* The results whose method outcome has not settled yet. *)
PendingResults == {t \in thens : t.p = resPromise}

(* The then-callback deliver attached for `t`, run on an outcome. *)
Outcome(t, rejected, value) ==
    thenHandler([Cur EXCEPT !.thens = @ \ {t}], resPromise, t.promiseID, rejected, value)

HeadedBy(call, vpid) == call.type = "resolve" /\ call.resolutions[1].vpid = vpid

(* The values user code can return or throw now. *)
Outcomes == {value \in ValLists(Vals) : Elems(value) \subseteq userHeld}

IsNotify == phase = "idle" /\ phase' = "user" /\ delivery'.type = "notify"

(* The state notify() has reached after its first loop, in that step. *)
AllResolved ==
    notifyEach(beginCollectingPromiseImports(BeginCrank(Cur, delivery')),
               delivery'.resolutions)

DistinctVpids(resolutions) ==
    \A i, j \in 1..Len(resolutions) :
        i # j => resolutions[i].vpid # resolutions[j].vpid

(* C22: a notify delivery that does not throw and names each vpid once     *)
(* settles, for every entry of its batch, the promise whose resolvers were *)
(* saved under the vpid, which was unsettled, as a rejection exactly when  *)
(* the entry is flagged rejected; after it the vpid is a key of neither    *)
(* importedPromisesByPromiseID nor slotToVal, and the promise is neither a *)
(* key of valToSlot nor in pendingPromises.                                *)
C22_NotifySettlesAndRetires ==
    [][(IsNotify /\ ~AllResolved.threw /\ DistinctVpids(delivery'.resolutions)) =>
           \A i \in 1..Len(delivery'.resolutions) :
               LET r == delivery'.resolutions[i]
                   p == AllResolved.importedPromisesByPromiseID[r.vpid]
               IN /\ p \in Promises
                  /\ ~settled[p].known \/ p \notin alive
                  /\ settled'[p].known
                  /\ settled'[p].rejected = r.rejected
                  /\ Len(settled'[p].value) = Len(r.slots)
                  /\ importedPromisesByPromiseID'[r.vpid] = NoVal
                  /\ slotToVal'[r.vpid] = NoVal
                  /\ valToSlot'[p] = NoSlot
                  /\ p \notin pendingPromises']_vars

(* A notify has rejected one promise and fulfilled another; both are       *)
(* retired.                                                                *)
C22_Witness ==
    /\ delivery.type = "notify" /\ Len(delivery.resolutions) = 2
    /\ delivery.resolutions[1].rejected /\ ~delivery.resolutions[2].rejected
    /\ \E p, q \in Promises :
           /\ settled[p].known /\ settled[p].rejected
           /\ settled[q].known /\ ~settled[q].rejected
           /\ valToSlot[p] = NoSlot /\ valToSlot[q] = NoSlot
    /\ \A i \in 1..2 : slotToVal[delivery.resolutions[i].vpid] = NoVal

(* The promise vrefs the data of a batch names that have no value when the *)
(* batch arrives: unserializing the batch imports them.                    *)
NewlyImported(resolutions) ==
    {v \in Vrefs : /\ v.type = "promise"
                   /\ Deref(Cur, v) = NoVal
                   /\ \E i \in 1..Len(resolutions) : v \in Named(resolutions[i].slots)}

(* C23: a notify delivery that does not throw has emitted no syscall when  *)
(* its batch has been unserialized and resolved, nor when the vpids of the *)
(* batch have been retired; what it emits in all is one syscall.subscribe  *)
(* for each promise vref the batch imported that is a key of slotToVal     *)
(* when notify ends, and nothing else.                                     *)
C23_SubscribeAfterRetire ==
    [][(IsNotify /\ ~AllResolved.threw) =>
           /\ AllResolved.log = log
           /\ retireEach(AllResolved, delivery'.resolutions).log = log
           /\ Extends
           /\ \A i \in Appended : log'[i].type = "subscribe"
           /\ \A i, j \in Appended : i # j => log'[i].vpid # log'[j].vpid
           /\ {log'[i].vpid : i \in Appended} =
                  {v \in NewlyImported(delivery'.resolutions) : slotToVal'[v] # NoVal}]_vars

(* A notify has resolved and retired a promise, and subscribed to another  *)
(* promise that the resolution data names.                                 *)
C23_Witness ==
    /\ delivery.type = "notify"
    /\ slotToVal[delivery.resolutions[1].vpid] = NoVal
    /\ \E p \in Promises : settled[p].known /\ valToSlot[p] = NoSlot
    /\ \E k \in 1..Len(log) :
           /\ log[k].type = "subscribe"
           /\ log[k].vpid \in Named(delivery.resolutions[1].slots)
           /\ slotToVal[log[k].vpid] # NoVal

(***************************************************************************)
(* The GC deliveries.                                                      *)
(***************************************************************************)
(* The step is the delivery of a dropExports, retireExports or             *)
(* retireImports.                                                          *)
IsDelivery(type) == phase = "idle" /\ phase' = "user" /\ delivery'.type = type

(* A list the kernel may name in dropExports and retireExports. *)
AllExports(vrefs) ==
    \A i \in 1..Len(vrefs) : vrefs[i].type = "object" /\ vrefs[i].allocatedByVat

RetiredIn(l) ==
    UNION {Named(l[i].vrefs) : i \in {k \in 1..Len(l) : l[k].type = "retireExports"}}

(* C24: a dropExports delivery that names exports removes from             *)
(* exportedRemotables the Remotables that slotToVal holds, alive, under    *)
(* the named vrefs, and no other; it changes none of slotToVal, valToSlot, *)
(* deadSet, pendingPromises and the two allocation counters, and emits no  *)
(* syscall.  A Remotable in exportedRemotables is alive after every step,  *)
(* no syscall.retireExports reports its vref, and it leaves                *)
(* exportedRemotables only by a dropExports delivery that names its vref.  *)
C24_DropExportsUnpins ==
    [][/\ (IsDelivery("dropExports") /\ AllExports(delivery'.vrefs)) =>
             /\ exportedRemotables' =
                    exportedRemotables \ {Deref(Cur, v) : v \in Named(delivery'.vrefs)}
             /\ UNCHANGED <<slotToVal, valToSlot, deadSet, pendingPromises,
                            nextExportID, nextPromiseID, log>>
       /\ \A r \in exportedRemotables :
             /\ r \in alive'
             /\ valToSlot[r] \notin RetiredIn(log')
             /\ r \notin exportedRemotables' =>
                    /\ IsDelivery("dropExports")
                    /\ valToSlot[r] \in Named(delivery'.vrefs)]_vars

(* A Remotable that a dropExports has unpinned has been collected and      *)
(* reported by syscall.retireExports, in the GC drain of that delivery.    *)
C24_Witness ==
    /\ delivery.type = "dropExports"
    /\ \E i \in 1..Len(log) :
           /\ log[i].type = "retireExports"
           /\ FirstExport \in Named(log[i].vrefs) \cap Named(delivery.vrefs)

(* The vref names, alive, a Remotable that is in exportedRemotables. *)
Pinned(vref) == Deref(Cur, vref) \in exportedRemotables

(* C25: a retireExports delivery that names exports leaves, for every      *)
(* vref of its list whose Remotable is in exportedRemotables, the slotToVal *)
(* and valToSlot entries as they are, and removes, for every other vref of *)
(* the list, the slotToVal entry and the valToSlot entry of its value,     *)
(* wherever in the list a pinned one stands; it changes no entry of an     *)
(* unnamed vref, nor exportedRemotables, and emits no syscall.             *)
C25_RetireExportsUnlessPinned ==
    [][(IsDelivery("retireExports") /\ AllExports(delivery'.vrefs)) =>
           /\ \A v \in Named(delivery'.vrefs) :
                  IF Pinned(v)
                  THEN /\ slotToVal'[v] = slotToVal[v]
                       /\ valToSlot'[Deref(Cur, v)] = v
                  ELSE /\ slotToVal'[v] = NoVal
                       /\ \A val \in Vals : valToSlot[val] = v => valToSlot'[val] = NoSlot
           /\ \A v \in Vrefs \ Named(delivery'.vrefs) : slotToVal'[v] = slotToVal[v]
           /\ \A val \in Vals :
                  valToSlot[val] \notin Named(delivery'.vrefs) =>
                      valToSlot'[val] = valToSlot[val]
           /\ UNCHANGED <<exportedRemotables, log>>]_vars

(* A retireExports has named a pinned export first and then one that a     *)
(* dropExports had unpinned: the first is registered, the second is not.   *)
C25_Witness ==
    /\ delivery.type = "retireExports" /\ Len(delivery.vrefs) = 2
    /\ Deref(Cur, delivery.vrefs[1]) \in exportedRemotables
    /\ delivery.vrefs[2] # delivery.vrefs[1]
    /\ slotToVal[delivery.vrefs[2]] = NoVal
    /\ \E r \in Remotables :
           r \in alive /\ valToSlot[r] = NoSlot /\ delivery.vrefs[2] \in slotsOf[r]

GCDeliveries == {"dropExports", "retireExports", "retireImports"}

(* The tables and mode flags of liveslots. *)
tables == <<didRoot, valToSlot, slotToVal, exportedRemotables, pendingPromises,
            deadSet, disavowedPresences, importedPromisesByPromiseID, nextExportID,
            nextPromiseID, knownResolutions, importedPromises, droppedRegistry>>

(* C26: in the crank of a dropExports, retireExports or retireImports      *)
(* delivery, well-formed or not, the only steps that emit a syscall are    *)
(* those of processDeadSet, after quiescence, and they emit GC syscalls;   *)
(* and a retireImports delivery changes no table of liveslots.             *)
C26_GCDeliveriesSilent ==
    [][/\ (delivery'.type \in GCDeliveries /\ log' # log) =>
             /\ phase = "drain"
             /\ Extends
             /\ \A i \in Appended : log'[i].type \in GCSyscalls
       /\ IsDelivery("retireImports") => UNCHANGED tables]_vars

(* The drain of a retireImports crank has reported a Presence that was     *)
(* collected in that crank.                                                *)
C26_Witness ==
    /\ delivery.type = "retireImports" /\ delivery.vrefs # <<>>
    /\ phase = "done"
    /\ \E i \in 1..Len(log) : log[i].type = "dropImports"

(***************************************************************************)
(* The GC drain.                                                           *)
(***************************************************************************)
(* The step is a call of processDeadSet. *)
IsDrain == phase = "drain" /\ phase' # "drain"

(* The vrefs the syscalls of kind `type` that this step appends name. *)
Reported(type) ==
    UNION {Named(log'[i].vrefs) : i \in {k \in Appended : log'[k].type = type}}

(* C27: a kernel-allocated object vref that is in deadSet (its Presence    *)
(* was dropped and collected and the finalizer has run) leaves deadSet     *)
(* only by a re-introduction, which registers a value under it, or in a    *)
(* processDeadSet step; that step, unless the virtual object manager       *)
(* reports the vref reachable, emits a syscall.dropImports that names it,  *)
(* and also a syscall.retireImports that names it unless the vref is       *)
(* recognizable; and no dispatch completes with a vref left in deadSet.    *)
C27_FinalizedImportReported ==
    [][/\ \A v \in Named(deadSet) \cap KernelObjects :
             /\ v \notin Named(deadSet') => (phase = "drain" \/ slotToVal'[v] # NoVal)
             /\ (IsDrain /\ v \notin vomReachable) =>
                    /\ v \in Reported("dropImports")
                    /\ v \notin vomRecognizable => v \in Reported("retireImports")
       /\ phase' = "done" => deadSet' = <<>>]_vars

(* The drain has reported the drop and the retirement of the first import, *)
(* whose vref has no value any more.                                       *)
C27_Witness ==
    /\ phase = "done"
    /\ slotToVal[FirstImport] = NoVal
    /\ \E i, j \in 1..Len(log) :
           /\ log[i].type = "dropImports" /\ FirstImport \in Named(log[i].vrefs)
           /\ log[j].type = "retireImports" /\ FirstImport \in Named(log[j].vrefs)

(* C29: a processDeadSet step reports no vref that is not in deadSet; of   *)
(* the vrefs of deadSet it reports a virtual vat-allocated one in no       *)
(* syscall, a non-virtual vat-allocated one in syscall.retireExports and   *)
(* in no other, a kernel-allocated one in syscall.dropImports exactly when *)
(* the virtual object manager does not report it reachable, in             *)
(* syscall.retireImports exactly when it is in dropImports and not         *)
(* recognizable, and never in retireExports; so the vrefs of retireImports *)
(* are among those of dropImports.                                         *)
C29_DeadSetClassified ==
    [][IsDrain =>
           /\ Reported("dropImports") \cup Reported("retireImports")
                  \cup Reported("retireExports") \subseteq Named(deadSet)
           /\ Reported("retireImports") \subseteq Reported("dropImports")
           /\ \A v \in Named(deadSet) :
                  IF v.allocatedByVat
                  THEN /\ v \notin Reported("dropImports") \cup Reported("retireImports")
                       /\ v \in Reported("retireExports") <=> ~v.virtual
                  ELSE /\ v \in Reported("dropImports") <=> v \notin vomReachable
                       /\ v \in Reported("retireImports") <=>
                              (v \in Reported("dropImports") /\ v \notin vomRecognizable)
                       /\ v \notin Reported("retireExports")]_vars

(* A drain has reported the drop of an import that is still recognizable,  *)
(* without its retirement, and the retirement of an export; the virtual    *)
(* object that was registered is in no table and was reported in no        *)
(* syscall.                                                                *)
C29_Witness ==
    /\ phase = "done" /\ Len(log) = 2
    /\ log[1] = SysDropImports(<<FirstImport>>)
    /\ log[2] = SysRetireExports(<<FirstExport>>)
    /\ FirstImport \in vomRecognizable
    /\ FirstVirtual \in introduced /\ slotToVal[FirstVirtual] = NoVal

(* The place of a GC syscall in the order processDeadSet makes them. *)
Rank(type) ==
    CASE type = "dropImports"   -> 1
      [] type = "retireImports" -> 2
      [] type = "retireExports" -> 3
      [] OTHER                  -> 0

(* C30: a processDeadSet step appends to the log GC syscalls only, each    *)
(* with a list that is not empty, of kinds that strictly ascend in the     *)
(* order dropImports, retireImports, retireExports, so each kind at most   *)
(* once; it leaves deadSet empty; and deadSet is empty in the state in     *)
(* which dispatch completes.                                               *)
C30_DrainOncePerKind ==
    [][/\ IsDrain =>
             /\ Extends
             /\ \A i \in Appended :
                    /\ Rank(log'[i].type) > 0
                    /\ log'[i].vrefs # <<>>
             /\ \A i, j \in Appended : i < j => Rank(log'[i].type) < Rank(log'[j].type)
             /\ deadSet' = <<>>
       /\ phase' = "done" => deadSet' = <<>>]_vars

(* A drain has emitted all three GC syscalls and left deadSet empty. *)
C30_Witness ==
    /\ phase = "done" /\ deadSet = <<>> /\ Len(log) >= 3
    /\ log[Len(log) - 2].type = "dropImports"
    /\ log[Len(log) - 1].type = "retireImports"
    /\ log[Len(log)].type = "retireExports"

(***************************************************************************)
(* Malformed deliveries.                                                   *)
(***************************************************************************)
(* C28: a notify delivery that throws, its batch naming a vpid under which *)
(* no resolvers are saved, either leaves every table and mode flag of      *)
(* liveslots as it was before the delivery, or has emitted                 *)
(* syscall.exit(true).                                                     *)
C28_MalformedIgnoredOrFatal ==
    [][(IsNotify /\ AllResolved.threw) =>
           \/ UNCHANGED tables
           \/ \E i \in Appended : log'[i].type = "exit" /\ log'[i].isFailure]_vars

(***************************************************************************)
(* Finalizer callbacks, allocation, and the order of outbound syscalls.    *)
(***************************************************************************)
(* The step is one finalizer callback for `vref`, run by the engine. *)
IsFinalizer(vref) ==
    /\ phase' = phase
    /\ finalizerQueue[vref] > 0
    /\ finalizerQueue' = [finalizerQueue EXCEPT ![vref] = @ - 1]

(* The vref is in the state COLLECTED: slotToVal holds a dead weak         *)
(* reference for it.                                                       *)
IsCollected(vref) == slotToVal[vref] = DeadVal

(* C31: a finalizer callback for a vref changes the tables only when       *)
(* slotToVal holds a dead weak reference for the vref: it then adds the    *)
(* vref to deadSet and deletes the slotToVal entry, and nothing else.  In  *)
(* every other state (entry live, entry missing, vref in deadSet) the      *)
(* callback changes nothing, and a second run after any run changes        *)
(* nothing either.                                                         *)
C31_FinalizerOnlyWhenCollected ==
    /\ [](\A vref \in Vrefs :
              LET once == finalizeDroppedImport(Cur, vref) IN
              /\ ~IsCollected(vref) => once = Cur
              /\ finalizeDroppedImport(once, vref) = once)
    /\ [][\A vref \in Vrefs :
              IsFinalizer(vref) =>
                  IF IsCollected(vref)
                  THEN /\ deadSet' = SetAdd(deadSet, vref)
                       /\ slotToVal' = [slotToVal EXCEPT ![vref] = NoVal]
                       /\ UNCHANGED <<didRoot, valToSlot, exportedRemotables,
                                      pendingPromises, disavowedPresences,
                                      importedPromisesByPromiseID, nextExportID,
                                      nextPromiseID, knownResolutions,
                                      importedPromises, droppedRegistry, log>>
                  ELSE UNCHANGED <<tables, log>>]_vars

(* The callback of a later Presence has put the vref in deadSet while the  *)
(* callback of an earlier Presence of the same vref is still queued.       *)
C31_Witness ==
    \E vref \in KernelObjects :
        /\ InDeadSet(vref) /\ finalizerQueue[vref] > 0
        /\ cranks >= 2

(* The vrefs the vat allocates from its two counters, and the counter a    *)
(* vref of each type comes from.                                           *)
VatAllocated == (VatObjects \ {rootSlot}) \cup VatPromises

Counter(vref) == IF vref.type = "object" THEN nextExportID ELSE nextPromiseID

(* C32: the export counter starts at 1 and the promise counter at 5 and    *)
(* neither ever decreases; a vat-allocated vref that a value receives in a *)
(* step is at or above the counter before the step and below it after, so  *)
(* no two values ever receive the same vat-allocated vref, and no value    *)
(* other than the root object receives the root vref.                      *)
C32_AllocationNeverReuses ==
    /\ [](/\ nextExportID >= FirstExportID /\ nextPromiseID >= FirstPromiseID
          /\ \A a \in Vals : \A vref \in slotsOf[a] \cap VatAllocated :
                 /\ vref.id < Counter(vref)
                 /\ \A b \in Vals \ {a} : vref \notin slotsOf[b]
          /\ \A a \in Vals \ {rootObject} : rootSlot \notin slotsOf[a]
          /\ \A i \in 1..Len(log) :
                 log[i].type = "send" => log[i].result.id < nextPromiseID)
    /\ [][/\ nextExportID' >= nextExportID /\ nextPromiseID' >= nextPromiseID
          /\ \A a \in Vals : \A vref \in (slotsOf'[a] \ slotsOf[a]) \cap VatAllocated :
                 vref.id >= Counter(vref) /\ vref.id < Counter(vref)'
          /\ \A i \in Appended :
                 log'[i].type = "send" =>
                     /\ log'[i].result.id >= nextPromiseID
                     /\ log'[i].result.id < nextPromiseID']_vars

(* The Remotable has been exported a second time, under the second export  *)
(* id, and two sends have received the first two promise ids.              *)
C32_Witness ==
    /\ \E r \in Remotables : Cardinality(slotsOf[r] \cap VatAllocated) = 2
    /\ \E a, b \in Promises :
           /\ a # b
           /\ makeVatSlot("promise", TRUE, FirstPromiseID) \in slotsOf[a]
           /\ makeVatSlot("promise", TRUE, FirstPromiseID + 1) \in slotsOf[b]

(* The syscalls the step appends, in order. *)
Emitted == SubSeq(log', Len(log) + 1, Len(log'))

(* Some promise vref among `slots` has a resolution that liveslots knows. *)
AnyKnown(slots) ==
    \E i \in 1..Len(slots) :
        /\ slots[i].type = "promise"
        /\ slotToVal'[slots[i]] \in Vals
        /\ knownResolutions[slotToVal'[slots[i]]].known

(* C33: the step that emits a syscall.send emits, in this order, that one  *)
(* send, whose result is the vat promise vref just allocated; one          *)
(* syscall.resolve exactly when a promise vref among the argument slots    *)
(* has a known resolution; and one syscall.subscribe of the result.  The   *)
(* send of a call on the result promise of an earlier send has that send's *)
(* result vpid as its target and comes after it: in the log of the crank,  *)
(* or in a later crank than the subscribe of that result.                  *)
C33_SendResolveSubscribe ==
    [][(Extends /\ \E i \in Appended : log'[i].type = "send") =>
           LET send == Emitted[1]
               call == Head(pendingSends)
           IN /\ send.type = "send"
              /\ send.result \in VatPromises
              /\ send.result.id = nextPromiseID' - 1 /\ send.result.id >= nextPromiseID
              /\ Len(Emitted) = IF AnyKnown(send.slots) THEN 3 ELSE 2
              /\ Len(Emitted) = 3 => Emitted[2].type = "resolve"
              /\ Emitted[Len(Emitted)] = SysSubscribe(send.result)
              /\ slotToVal'[send.result] = call.returnedP
              /\ call.target \in Promises =>
                     /\ importedPromisesByPromiseID[send.target] = call.target
                     /\ send.target \in VatPromises =>
                            \/ \E k \in 1..Len(log) :
                                   log[k].type = "send" /\ log[k].result = send.target
                            \/ send.target \in subscribedBefore]_vars

(* The log of the crank is send, subscribe, send, subscribe: the second    *)
(* call is on the result of the first, and the results are the first two   *)
(* vat promise ids.                                                        *)
C33_Witness ==
    /\ Len(log) = 4
    /\ log[1].type = "send" /\ log[1].target = FirstImport
    /\ log[1].result = makeVatSlot("promise", TRUE, FirstPromiseID)
    /\ log[2] = SysSubscribe(log[1].result)
    /\ log[3].type = "send" /\ log[3].target = log[1].result
    /\ log[3].result = makeVatSlot("promise", TRUE, FirstPromiseID + 1)
    /\ log[4] = SysSubscribe(log[3].result)

(* C34: the GC drain of a crank is one iteration.  For every content of    *)
(* deadSet that is reachable, processDeadSet does not throw, empties        *)
(* deadSet and reports no more work; dispatch enters gcAndFinalize only    *)
(* from user code that is quiescent, goes from gcAndFinalize to            *)
(* processDeadSet and from processDeadSet to completion, and never back.   *)
C34_DrainTerminates ==
    /\ [](LET drained == processDeadSet(Cur)
          IN ~drained.r /\ ~drained.s.threw /\ drained.s.deadSet = <<>>)
    /\ [][/\ (phase # "gc" /\ phase' = "gc") => (phase = "user" /\ Quiescent)
          /\ (phase # "drain" /\ phase' = "drain") => phase = "gc"
          /\ phase = "gc" => phase' \in {"gc", "drain"}
          /\ phase = "drain" => phase' \in {"drain", "done"}
          /\ IsDrain => (phase' = "done" /\ deadSet' = <<>>)]_vars

(* A crank has completed whose single drain found a finalized import, a    *)
(* finalized export and the vref of a collected representative in deadSet. *)
C34_Witness ==
    /\ phase = "done" /\ deadSet = <<>>
    /\ \E i \in 1..Len(log) : log[i].type = "dropImports"
    /\ \E i \in 1..Len(log) : log[i].type = "retireExports"
    /\ FirstVirtual \in introduced /\ slotToVal[FirstVirtual] = NoVal

(* The vpids whose resolution has crossed the vat boundary: reported by    *)
(* the vat in a syscall.resolve batch, or by the kernel in a notify.       *)
ReportedResolved == resolvedBefore \cup ResolvedIn(log) \cup notified

(* C35 as stated: a promise whose resolution has been reported is not in   *)
(* pendingPromises, and its vref is a key of neither slotToVal nor         *)
(* importedPromisesByPromiseID.                                            *)
C35_PendingOnlyUnresolved ==
    \A vpid \in ReportedResolved :
        /\ slotToVal[vpid] = NoVal
        /\ importedPromisesByPromiseID[vpid] = NoVal
        /\ \A p \in pendingPromises : valToSlot[p] # vpid

(***************************************************************************)
(* Retirement of exports, and what the kernel has been told.               *)
(***************************************************************************)
(* C36 as stated: in the crank of a retireExports delivery that names      *)
(* export vrefs only, no syscall.retireExports names a vref of the         *)
(* delivery.                                                               *)
C36_NoRetireAfterRetired ==
    (delivery.type = "retireExports" /\ AllExports(delivery.vrefs)) =>
        \A i \in 1..Len(log) :
            log[i].type = "retireExports" =>
                Named(log[i].vrefs) \cap Named(delivery.vrefs) = {}

(* The vrefs that the syscalls before the `i`-th of the log have carried   *)
(* to the kernel in their slots.                                           *)
ToldBefore(i) ==
    UNION {IF log[k].type \in {"send", "callNow", "exit"} THEN Named(log[k].slots)
           ELSE IF log[k].type = "resolve"
           THEN UNION {Named(log[k].resolutions[j].slots)
                       : j \in 1..Len(log[k].resolutions)}
           ELSE {}
           : k \in 1..(i - 1)}

(* C37 as stated, for the first crank of the vat: every vref named in a    *)
(* syscall.retireExports occurred in the slots of an earlier syscall.      *)
C37_RetiredWereExported ==
    (cranks = 1 /\ gcCranks = 0) =>
        \A i \in 1..Len(log) :
            log[i].type = "retireExports" => Named(log[i].vrefs) \subseteq ToldBefore(i)

(* C38 as stated: valToSlot and slotToVal are inverse to each other on     *)
(* live values: the vref of a value leads back to the value, and no value  *)
(* is the referent of slotToVal under two vrefs.                           *)
C38_MutuallyInverse ==
    /\ \A v \in Vals : valToSlot[v] # NoSlot => slotToVal[valToSlot[v]] = v
    /\ \A a, b \in Vrefs : (a # b /\ slotToVal[a] \in Vals) => slotToVal[a] # slotToVal[b]

(* The vref is in the state UNKNOWN: no slotToVal entry, not in deadSet. *)
IsUnknown(vref) == ~IsKey(vref) /\ ~InDeadSet(vref)

(* The number of syscall.dropImports of the log `l` that name `vref`. *)
RECURSIVE DropsOf(_, _)
DropsOf(l, vref) ==
    IF l = <<>> THEN 0
    ELSE DropsOf(Tail(l), vref)
         + (IF Head(l).type = "dropImports" /\ vref \in Named(Head(l).vrefs) THEN 1 ELSE 0)

(* C39: a syscall.dropImports names a kernel-allocated object vref only in *)
(* a step that starts with the vref known (a live Presence that is         *)
(* disavowed, or the vref in deadSet) and ends with it UNKNOWN, and names   *)
(* it once; an UNKNOWN vref becomes known only in the step of a delivery   *)
(* that names it.  So between two introductions by the kernel the vref is  *)
(* named at most once, and at most once in the log of a crank, whatever    *)
(* callbacks are queued.                                                   *)
C39_DropImportsOncePerIntroduction ==
    /\ [](\A vref \in KernelObjects : DropsOf(log, vref) <= 1)
    /\ [][\A vref \in KernelObjects :
              /\ vref \in Reported("dropImports") =>
                     /\ Extends /\ ~IsUnknown(vref) /\ IsUnknown(vref)'
                     /\ DropsOf(Emitted, vref) = 1
              /\ (IsUnknown(vref) /\ ~IsUnknown(vref)') =>
                     /\ IsDelivery("message") /\ vref \in Named(delivery'.args)
                     /\ IsLive(vref)']_vars

(* In the crank of its second introduction the vref was dropped once, by   *)
(* disavow of its Presence, while the finalizer callback of the Presence   *)
(* it had before is still queued.                                          *)
C39_Witness ==
    \E vref \in KernelObjects :
        /\ cranks = 2 /\ phase = "done" /\ vref \in Named(delivery.args)
        /\ DropsOf(log, vref) = 1 /\ finalizerQueue[vref] > 0
        /\ \E d \in disavowedPresences : droppedRegistry[d] = vref

(* C40 as stated: a dropExports or retireExports delivery whose list holds *)
(* a vref that is not a vat-allocated object vref fails and leaves         *)
(* exportedRemotables, slotToVal and valToSlot as they were.               *)
C40_GCDeliveryAllOrNothing ==
    [][((IsDelivery("dropExports") \/ IsDelivery("retireExports"))
           /\ ~AllExports(delivery'.vrefs)) =>
          /\ errors' # {}
          /\ UNCHANGED <<exportedRemotables, slotToVal, valToSlot>>]_vars
====
